---- MODULE Spec2Model ----
(***************************************************************************)
(* Field-mapping and normalization engine of automated-info-pipeline.      *)
(*                                                                         *)
(*   - the field registry          (src/src/field_config.py)               *)
(*   - the field detector          (src/app.py, detect_standard_field)     *)
(*   - the cleaning pipeline       (src/src/data_cleaner.py, clean_excel)  *)
(*                                                                         *)
(* Text is modelled as a sequence of Unicode code points, so that          *)
(* lower-casing, trimming and substring tests are computed rather than     *)
(* assumed.  Comments show non-ASCII text in \uXXXX notation.              *)
(***************************************************************************)
EXTENDS Integers, Sequences, FiniteSets, TLC

VARIABLES
  column_name,   \* detector: the raw column name handed to detect_standard_field
  best_match,    \* detector: the value returned
  dstate,        \* detector: "ready" before the call, "returned" after it
  file,          \* the uploaded file: whether it can be read, and its table
  user_mapping,  \* clean_excel argument: None or a dict {raw column: field}
  today,         \* datetime.now() of the run, as <<year, month, day>>
  client,        \* DataCleaner.client: whether the summarizer is available
  pc,            \* position in clean_excel
  df,            \* the working table
  logs,          \* the cleaning log
  result,        \* what clean_excel returned
  ui,            \* main: the messages shown for the run (st.success, st.error)
  run,           \* "first", or which invocation follows it: "same_input", "own_output"
  previous,      \* table, log and processing date of the invocation before
  peer,          \* a second call of clean_excel running at the same time
  sessions,      \* upload sessions of main: position, upload, temp path, what was read
  tempdir,       \* the files of tempfile.gettempdir(): path and bytes
  clock          \* datetime.now() of the server, in seconds

dvars == <<column_name, best_match, dstate>>
cvars == <<peer, sessions, tempdir, clock>>
pvars == <<file, user_mapping, today, client, pc, df, logs, result, ui, run, previous, cvars>>
vars == <<column_name, best_match, dstate, file, user_mapping, today, client, pc, df, logs, result,
          ui, run, previous, peer, sessions, tempdir, clock>>

\* no second call and no upload session
NoPeer ==
  [pc |-> "idle", df |-> [columns |-> <<>>, rows |-> <<>>], logs |-> <<>>,
   table |-> [columns |-> <<>>, rows |-> <<>>], mapping |-> [given |-> FALSE, pairs |-> <<>>]]

ConcurrencyIdle ==
  /\ peer = NoPeer
  /\ sessions = <<>>
  /\ tempdir = {}
  /\ clock = 0

(***************************************************************************)
(* Bounds of the model.                                                    *)
(***************************************************************************)
\* longest fragment of a keyword offered to the detector as a column name
MaxSubLen == 6
\* most blanks put in front of and behind a column name
MaxPad == 1
\* longest keyword used as a part of a two-keyword column name
MaxJoinLen == 2

(***************************************************************************)
(* Text helpers (Python str methods).                                      *)
(***************************************************************************)
SetMin(S) == CHOOSE x \in S : \A y \in S : x <= y
SetMax(S) == CHOOSE x \in S : \A y \in S : x >= y

\* str.lower(): only A-Z occur upper-cased in the modelled alphabet
Lower(s) == [i \in 1..Len(s) |-> IF s[i] >= 65 /\ s[i] <= 90 THEN s[i] + 32 ELSE s[i]]

\* str.isspace() of one character: blank, tab, LF, CR, ideographic space
IsSpace(c) == c \in {32, 9, 10, 13, 12288}

\* str.strip()
Strip(s) ==
  LET keep == {i \in 1..Len(s) : ~IsSpace(s[i])}
  IN  IF keep = {} THEN <<>> ELSE SubSeq(s, SetMin(keep), SetMax(keep))

\* Python's  needle in hay  on strings
Contains(needle, hay) ==
  \E i \in 0..(Len(hay) - Len(needle)) : SubSeq(hay, i + 1, i + Len(needle)) = needle

(***************************************************************************)
(* Field registry.                                                         *)
(***************************************************************************)
STANDARD_FIELDS ==
  <<
    [key |-> "SaleID", category |-> "id", keywords |-> <<
       <<105,100>>,  \* id
       <<23458,25143,105,100>>,  \* \u5BA2\u6237id
       <<29992,25143,32534,21495>>,  \* \u7528\u6237\u7F16\u53F7
       <<35746,21333,21495>>,  \* \u8BA2\u5355\u53F7
       <<24207,21015,21495>>,  \* \u5E8F\u5217\u53F7
       <<35760,24405,21495>>,  \* \u8BB0\u5F55\u53F7
       <<21807,19968,26631,35782>>,  \* \u552F\u4E00\u6807\u8BC6
       <<99,117,115,116,111,109,101,114,95,105,100>>,  \* customer_id
       <<117,115,101,114,95,105,100>>,  \* user_id
       <<111,114,100,101,114,95,105,100>>,  \* order_id
       <<115,101,114,105,97,108>>,  \* serial
       <<114,101,99,111,114,100,95,105,100>>,  \* record_id
       <<32534,21495>>  \* \u7F16\u53F7
     >>],
    [key |-> "CustomerName", category |-> "customer", keywords |-> <<
       <<22995,21517>>,  \* \u59D3\u540D
       <<29992,25143,21517>>,  \* \u7528\u6237\u540D
       <<32852,31995,20154>>,  \* \u8054\u7CFB\u4EBA
       <<110,97,109,101>>,  \* name
       <<117,115,101,114,110,97,109,101>>,  \* username
       <<99,111,110,116,97,99,116>>,  \* contact
       <<23458,25143,21517>>,  \* \u5BA2\u6237\u540D
       <<23458,25143,22995,21517>>  \* \u5BA2\u6237\u59D3\u540D
     >>],
    [key |-> "Phone", category |-> "customer", keywords |-> <<
       <<25163,26426,21495>>,  \* \u624B\u673A\u53F7
       <<30005,35805>>,  \* \u7535\u8BDD
       <<112,104,111,110,101>>,  \* phone
       <<109,111,98,105,108,101>>,  \* mobile
       <<116,101,108>>,  \* tel
       <<32852,31995,30005,35805>>,  \* \u8054\u7CFB\u7535\u8BDD
       <<25163,26426>>  \* \u624B\u673A
     >>],
    [key |-> "Email", category |-> "customer", keywords |-> <<
       <<37038,31665>>,  \* \u90AE\u7BB1
       <<101,109,97,105,108>>,  \* email
       <<109,97,105,108>>,  \* mail
       <<30005,23376,37038,20214>>,  \* \u7535\u5B50\u90AE\u4EF6
       <<101,45,109,97,105,108>>  \* e-mail
     >>],
    [key |-> "Address", category |-> "customer", keywords |-> <<
       <<22320,22336>>,  \* \u5730\u5740
       <<97,100,100,114,101,115,115>>,  \* address
       <<108,111,99,97,116,105,111,110>>,  \* location
       <<35814,32454,22320,22336>>,  \* \u8BE6\u7EC6\u5730\u5740
       <<25910,36135,22320,22336>>  \* \u6536\u8D27\u5730\u5740
     >>],
    [key |-> "Province", category |-> "customer", keywords |-> <<
       <<30465,20221>>,  \* \u7701\u4EFD
       <<112,114,111,118,105,110,99,101>>,  \* province
       <<115,116,97,116,101>>,  \* state
       <<30465>>  \* \u7701
     >>],
    [key |-> "City", category |-> "customer", keywords |-> <<
       <<22478,24066>>,  \* \u57CE\u5E02
       <<99,105,116,121>>,  \* city
       <<24066>>  \* \u5E02
     >>],
    [key |-> "Department", category |-> "customer", keywords |-> <<
       <<37096,38376>>,  \* \u90E8\u95E8
       <<100,101,112,97,114,116,109,101,110,116>>,  \* department
       <<100,101,112,116>>,  \* dept
       <<25152,23646,37096,38376>>  \* \u6240\u5C5E\u90E8\u95E8
     >>],
    [key |-> "OrderDate", category |-> "datetime", keywords |-> <<
       <<26085,26399>>,  \* \u65E5\u671F
       <<26102,38388>>,  \* \u65F6\u95F4
       <<21019,24314,26102,38388>>,  \* \u521B\u5EFA\u65F6\u95F4
       <<26356,26032,26085,26399>>,  \* \u66F4\u65B0\u65E5\u671F
       <<24320,22987,26085,26399>>,  \* \u5F00\u59CB\u65E5\u671F
       <<32467,26463,26085,26399>>,  \* \u7ED3\u675F\u65E5\u671F
       <<100,97,116,101>>,  \* date
       <<116,105,109,101>>,  \* time
       <<99,114,101,97,116,101,100,95,97,116>>,  \* created_at
       <<117,112,100,97,116,101,100,95,97,116>>,  \* updated_at
       <<115,116,97,114,116,95,100,97,116,101>>,  \* start_date
       <<101,110,100,95,100,97,116,101>>,  \* end_date
       <<27880,20876,26085,26399>>,  \* \u6CE8\u518C\u65E5\u671F
       <<35746,21333,26085,26399>>,  \* \u8BA2\u5355\u65E5\u671F
       <<19979,21333,26102,38388>>,  \* \u4E0B\u5355\u65F6\u95F4
       <<36141,20080,26085,26399>>  \* \u8D2D\u4E70\u65E5\u671F
     >>],
    [key |-> "ProductName", category |-> "product", keywords |-> <<
       <<21830,21697,21517,31216>>,  \* \u5546\u54C1\u540D\u79F0
       <<20135,21697,21517>>,  \* \u4EA7\u54C1\u540D
       <<112,114,111,100,117,99,116>>,  \* product
       <<105,116,101,109>>,  \* item
       <<103,111,111,100,115>>,  \* goods
       <<20135,21697>>,  \* \u4EA7\u54C1
       <<21830,21697>>  \* \u5546\u54C1
     >>],
    [key |-> "SKU", category |-> "product", keywords |-> <<
       <<115,107,117>>,  \* sku
       <<21830,21697,32534,30721>>,  \* \u5546\u54C1\u7F16\u7801
       <<112,114,111,100,117,99,116,95,99,111,100,101>>,  \* product_code
       <<36135,21495>>,  \* \u8D27\u53F7
       <<21830,21697,115,107,117>>  \* \u5546\u54C1sku
     >>],
    [key |-> "ProductCategory", category |-> "product", keywords |-> <<
       <<20135,21697,31867,21035>>,  \* \u4EA7\u54C1\u7C7B\u522B
       <<21830,21697,20998,31867>>,  \* \u5546\u54C1\u5206\u7C7B
       <<99,97,116,101,103,111,114,121>>,  \* category
       <<20135,21697,20998,31867>>,  \* \u4EA7\u54C1\u5206\u7C7B
       <<21830,21697,31867,21035>>  \* \u5546\u54C1\u7C7B\u522B
     >>],
    [key |-> "Model", category |-> "product", keywords |-> <<
       <<22411,21495>>,  \* \u578B\u53F7
       <<109,111,100,101,108>>,  \* model
       <<115,112,101,99,105,102,105,99,97,116,105,111,110>>,  \* specification
       <<35268,26684>>,  \* \u89C4\u683C
       <<26426,22411>>  \* \u673A\u578B
     >>],
    [key |-> "TotalPrice", category |-> "numeric", keywords |-> <<
       <<37329,39069>>,  \* \u91D1\u989D
       <<20215,26684>>,  \* \u4EF7\u683C
       <<24635,35745>>,  \* \u603B\u8BA1
       <<97,109,111,117,110,116>>,  \* amount
       <<112,114,105,99,101>>,  \* price
       <<116,111,116,97,108>>,  \* total
       <<109,111,110,101,121>>,  \* money
       <<34218,36164>>,  \* \u85AA\u8D44
       <<34218,27700>>,  \* \u85AA\u6C34
       <<115,97,108,97,114,121>>,  \* salary
       <<24635,37329,39069>>,  \* \u603B\u91D1\u989D
       <<24635,20215>>,  \* \u603B\u4EF7
       <<28040,36153,37329,39069>>  \* \u6D88\u8D39\u91D1\u989D
     >>],
    [key |-> "UnitPrice", category |-> "numeric", keywords |-> <<
       <<21333,20215>>,  \* \u5355\u4EF7
       <<117,110,105,116,95,112,114,105,99,101>>,  \* unit_price
       <<21333,20301,20215,26684>>  \* \u5355\u4F4D\u4EF7\u683C
     >>],
    [key |-> "Quantity", category |-> "numeric", keywords |-> <<
       <<25968,37327>>,  \* \u6570\u91CF
       <<113,117,97,110,116,105,116,121>>,  \* quantity
       <<113,116,121>>,  \* qty
       <<99,111,117,110,116>>,  \* count
       <<36141,20080,25968,37327>>  \* \u8D2D\u4E70\u6570\u91CF
     >>],
    [key |-> "Revenue", category |-> "numeric", keywords |-> <<
       <<25910,20837>>,  \* \u6536\u5165
       <<114,101,118,101,110,117,101>>,  \* revenue
       <<105,110,99,111,109,101>>,  \* income
       <<33829,25910>>  \* \u8425\u6536
     >>],
    [key |-> "Cost", category |-> "numeric", keywords |-> <<
       <<25104,26412>>,  \* \u6210\u672C
       <<99,111,115,116>>,  \* cost
       <<101,120,112,101,110,115,101>>,  \* expense
       <<36153,29992>>  \* \u8D39\u7528
     >>],
    [key |-> "Age", category |-> "numeric", keywords |-> <<
       <<24180,40836>>,  \* \u5E74\u9F84
       <<97,103,101>>,  \* age
       <<23681>>  \* \u5C81
     >>],
    [key |-> "Rating", category |-> "numeric", keywords |-> <<
       <<35780,20998>>,  \* \u8BC4\u5206
       <<114,97,116,105,110,103>>,  \* rating
       <<115,99,111,114,101>>,  \* score
       <<35780,20215>>,  \* \u8BC4\u4EF7
       <<25171,20998>>  \* \u6253\u5206
     >>],
    [key |-> "Status", category |-> "status", keywords |-> <<
       <<29366,24577>>,  \* \u72B6\u6001
       <<115,116,97,116,117,115>>,  \* status
       <<115,116,97,116,101>>,  \* state
       <<35746,21333,29366,24577>>  \* \u8BA2\u5355\u72B6\u6001
     >>],
    [key |-> "Type", category |-> "status", keywords |-> <<
       <<31867,22411>>,  \* \u7C7B\u578B
       <<116,121,112,101>>,  \* type
       <<107,105,110,100>>  \* kind
     >>],
    [key |-> "Category", category |-> "status", keywords |-> <<
       <<20998,31867>>,  \* \u5206\u7C7B
       <<31867,21035>>,  \* \u7C7B\u522B
       <<99,97,116,101,103,111,114,121>>  \* category
     >>],
    [key |-> "Level", category |-> "status", keywords |-> <<
       <<31561,32423>>,  \* \u7B49\u7EA7
       <<108,101,118,101,108>>,  \* level
       <<103,114,97,100,101>>,  \* grade
       <<114,97,110,107>>,  \* rank
       <<32423,21035>>  \* \u7EA7\u522B
     >>],
    [key |-> "Gender", category |-> "status", keywords |-> <<
       <<24615,21035>>,  \* \u6027\u522B
       <<103,101,110,100,101,114>>,  \* gender
       <<115,101,120>>  \* sex
     >>],
    [key |-> "IsValid", category |-> "status", keywords |-> <<
       <<26159,21542,26377,25928>>,  \* \u662F\u5426\u6709\u6548
       <<26377,25928,24615>>,  \* \u6709\u6548\u6027
       <<118,97,108,105,100>>,  \* valid
       <<105,115,95,118,97,108,105,100>>,  \* is_valid
       <<97,99,116,105,118,101>>,  \* active
       <<21551,29992>>  \* \u542F\u7528
     >>],
    [key |-> "Description", category |-> "text", keywords |-> <<
       <<25551,36848>>,  \* \u63CF\u8FF0
       <<35814,24773>>,  \* \u8BE6\u60C5
       <<35828,26126>>,  \* \u8BF4\u660E
       <<100,101,115,99,114,105,112,116,105,111,110>>,  \* description
       <<100,101,116,97,105,108>>,  \* detail
       <<110,111,116,101>>  \* note
     >>],
    [key |-> "Remarks", category |-> "text", keywords |-> <<
       <<22791,27880>>,  \* \u5907\u6CE8
       <<27880,37322>>,  \* \u6CE8\u91CA
       <<114,101,109,97,114,107,115>>,  \* remarks
       <<99,111,109,109,101,110,116>>,  \* comment
       <<110,111,116,101,115>>,  \* notes
       <<22791,27880,20449,24687>>  \* \u5907\u6CE8\u4FE1\u606F
     >>]
  >>

\* variant of category_order that leaves the last category out
category_order_without_text == <<"id", "customer", "datetime", "product", "numeric", "status">>

\* get_field_options_by_category: the fixed category order
category_order == <<"id", "customer", "datetime", "product", "numeric", "status", "text">>

\* iteration order of "for field_key ... for keyword ..." flattened:
\* <<index of the field in STANDARD_FIELDS, keyword>>
RECURSIVE FlattenFrom(_)
FlattenFrom(i) ==
  IF i > Len(STANDARD_FIELDS) THEN <<>>
  ELSE [j \in 1..Len(STANDARD_FIELDS[i].keywords) |-> <<i, STANDARD_FIELDS[i].keywords[j]>>]
       \o FlattenFrom(i + 1)

KeywordScan == FlattenFrom(1)

(***************************************************************************)
(* Field detector.                                                         *)
(***************************************************************************)
\* col_lower == keyword_lower
ExactMatch(col, kw) == col = kw

\* keyword_lower in col_lower
TypeAMatch(col, kw) == Contains(kw, col)

TypeBMatchAnyLength(col, kw) == Contains(col, kw)

\* col_lower in keyword_lower and len(col_lower) > 2
TypeBMatch(col, kw) == Contains(col, kw) /\ Len(col) > 2

TypeAScoreColumn(col, kw) == Len(col)

\* score = len(keyword_lower)
TypeAScore(col, kw) == Len(kw)

\* score = len(col_lower)
TypeBScore(col, kw) == Len(col)

ScoreBeatsOrTies(score, max_match_score) == score >= max_match_score

\* if score > max_match_score
ScoreBeats(score, max_match_score) == score > max_match_score

\* the inner loop "for keyword in keywords" of field i, from keyword j on;
\* st is the running <<best_match, max_match_score>> and whether the
\* function has returned (exact match)
RECURSIVE ScanKeywords(_, _, _, _)
ScanKeywords(col_lower, i, j, st) ==
  IF j > Len(STANDARD_FIELDS[i].keywords) THEN st
  ELSE
    LET field_key     == STANDARD_FIELDS[i].key
        keyword_lower == Lower(STANDARD_FIELDS[i].keywords[j])
    IN  IF ExactMatch(col_lower, keyword_lower)
          THEN [returned |-> TRUE, best_match |-> field_key,
                max_match_score |-> st.max_match_score]
        ELSE IF TypeAMatch(col_lower, keyword_lower)
          THEN IF ScoreBeats(TypeAScore(col_lower, keyword_lower), st.max_match_score)
                 THEN ScanKeywords(col_lower, i, j + 1,
                        [returned |-> FALSE, best_match |-> field_key,
                         max_match_score |-> TypeAScore(col_lower, keyword_lower)])
                 ELSE ScanKeywords(col_lower, i, j + 1, st)
        ELSE IF TypeBMatch(col_lower, keyword_lower)
          THEN IF ScoreBeats(TypeBScore(col_lower, keyword_lower), st.max_match_score)
                 THEN ScanKeywords(col_lower, i, j + 1,
                        [returned |-> FALSE, best_match |-> field_key,
                         max_match_score |-> TypeBScore(col_lower, keyword_lower)])
                 ELSE ScanKeywords(col_lower, i, j + 1, st)
        ELSE ScanKeywords(col_lower, i, j + 1, st)

\* the outer loop "for field_key, field_info in STANDARD_FIELDS.items()"
RECURSIVE ScanFields(_, _, _)
ScanFields(col_lower, i, st) ==
  IF i > Len(STANDARD_FIELDS) THEN st.best_match
  ELSE LET r == ScanKeywords(col_lower, i, 1, st)
       IN  IF r.returned THEN r.best_match ELSE ScanFields(col_lower, i + 1, r)

detect_standard_field(name) ==
  IF name = <<>> THEN "Ignore"
  ELSE ScanFields(Strip(Lower(name)), 1,
                  [returned |-> FALSE, best_match |-> "Ignore", max_match_score |-> 0])

(***************************************************************************)
(* Column names offered to the detector.                                   *)
(***************************************************************************)
AllKeywords == {KeywordScan[i][2] : i \in 1..Len(KeywordScan)}

Upper(s) == [i \in 1..Len(s) |-> IF s[i] >= 97 /\ s[i] <= 122 THEN s[i] - 32 ELSE s[i]]

Capitalized(s) == [i \in 1..Len(s) |-> IF i = 1 /\ s[i] >= 97 /\ s[i] <= 122 THEN s[i] - 32 ELSE s[i]]

Blanks(n) == [i \in 1..n |-> 32]

Padded(S) == {Blanks(l) \o s \o Blanks(r) : l \in 0..MaxPad, r \in 0..MaxPad, s \in S}

KeywordFragments ==
  UNION {{SubSeq(k, i, j) : i \in 1..Len(k), j \in 1..Len(k)} : k \in AllKeywords}

ShortKeywords == {k \in AllKeywords : Len(k) <= MaxJoinLen}

\* headers as they occur in spreadsheets: "Customer Name", "order_date",
\* "product_category", "Unit Price", "user email", "xyz", "n/a"
SampleHeaders ==
  { <<67,117,115,116,111,109,101,114,32,78,97,109,101>>,
    <<111,114,100,101,114,95,100,97,116,101>>,
    <<112,114,111,100,117,99,116,95,99,97,116,101,103,111,114,121>>,
    <<85,110,105,116,32,80,114,105,99,101>>,
    <<117,115,101,114,32,101,109,97,105,108>>,
    <<120,121,122>>,
    <<110,47,97>> }

DetectInputs ==
  Padded(AllKeywords \cup {Upper(k) : k \in AllKeywords}
                     \cup {Capitalized(k) : k \in AllKeywords})
  \cup {f \in KeywordFragments : Len(f) <= MaxSubLen}
  \cup {a \o b : a \in ShortKeywords, b \in ShortKeywords}
  \cup Padded(SampleHeaders)
  \cup {Blanks(n) : n \in 0..(MaxPad + 1)}

\* the pipeline at rest while the detector is exercised
PipelineIdle ==
  /\ file = [state |-> "missing", table |-> [columns |-> <<>>, rows |-> <<>>]]
  /\ user_mapping = [given |-> FALSE, pairs |-> <<>>]
  /\ today = <<2024, 3, 1>>
  /\ client = FALSE
  /\ pc = "idle"
  /\ df = [columns |-> <<>>, rows |-> <<>>]
  /\ logs = <<>>
  /\ result = [returned |-> FALSE, has_df |-> FALSE,
               df |-> [columns |-> <<>>, rows |-> <<>>], summary |-> "none"]
  /\ ui = <<>>
  /\ run = "first"
  /\ previous = [df |-> [columns |-> <<>>, rows |-> <<>>], logs |-> <<>>, today |-> <<2024, 3, 1>>]

DetectInit ==
  /\ column_name \in DetectInputs
  /\ best_match = "none"
  /\ dstate = "ready"
  /\ PipelineIdle
  /\ ConcurrencyIdle

\* one call of detect_standard_field(raw_col)
Detect ==
  /\ dstate = "ready"
  /\ best_match' = detect_standard_field(column_name)
  /\ dstate' = "returned"
  /\ UNCHANGED <<column_name, pvars>>

DetectNext == Detect

SpecDetect == DetectInit /\ [][DetectNext]_vars

(***************************************************************************)
(* Detector claims.  The matches are restated here from the registry       *)
(* alone, independently of the scan above.                                 *)
(***************************************************************************)
\* the trimmed, lower-cased column name
NormalizedName == Strip(Lower(column_name))

\* every (field index, keyword index) of the registry
RegistryPairs ==
  UNION {{<<i, j>> : j \in 1..Len(STANDARD_FIELDS[i].keywords)} : i \in 1..Len(STANDARD_FIELDS)}

PairField(p) == STANDARD_FIELDS[p[1]].key
LoweredKeyword == [p \in RegistryPairs |-> Lower(STANDARD_FIELDS[p[1]].keywords[p[2]])]
PairKeyword(p) == LoweredKeyword[p]

\* how each keyword matches the name n, with the candidate score
MatchTable(n) ==
  [p \in RegistryPairs |->
     IF LoweredKeyword[p] = n THEN [how |-> "exact", score |-> 0]
     ELSE IF Contains(LoweredKeyword[p], n)
            THEN [how |-> "A", score |-> Len(LoweredKeyword[p])]
     ELSE IF Contains(n, LoweredKeyword[p]) /\ Len(n) > 2
            THEN [how |-> "B", score |-> Len(n)]
     ELSE [how |-> "none", score |-> 0]]

PairsOf(m, how) == {p \in RegistryPairs : m[p].how = how}
TopOf(m) ==
  LET hit  == PairsOf(m, "A") \cup PairsOf(m, "B")
      best == SetMax({m[p].score : p \in hit})
  IN  {p \in hit : m[p].score = best}
FirstFieldOf(P) == STANDARD_FIELDS[SetMin({p[1] : p \in P})].key

\* C1: for every registry field F and every keyword k of F, detect applied
\* to k (any letter case, with or without surrounding blanks) returns F,
\* also when k is a keyword of another field as well.
C1_KeywordReturnsItsField ==
  dstate = "returned" =>
    LET m == MatchTable(NormalizedName)
    IN  \A p \in PairsOf(m, "exact") : best_match = PairField(p)

\* C6 as stated: with no exact match, a name matching two keywords of
\* different lengths that belong to different fields is given the field of
\* the longer keyword.
C6_LongerKeywordWins ==
  dstate = "returned" =>
    LET m   == MatchTable(NormalizedName)
        hit == PairsOf(m, "A") \cup PairsOf(m, "B")
    IN  (PairsOf(m, "exact") = {} /\ Cardinality(hit) = 2) =>
          \A p \in hit : \A q \in hit :
            (p[1] # q[1] /\ Len(PairKeyword(p)) < Len(PairKeyword(q)))
            => best_match = PairField(q)

\* C6 amended: with no exact match, when no keyword contains the name the
\* result is the field of a longest keyword contained in the name; when
\* some keywords contain the name (type B) they all score the name's
\* length, whatever their own length, and the first such field in registry
\* order is returned.
C6_LongestContainedKeywordWins ==
  dstate = "returned" =>
    LET m == MatchTable(NormalizedName)
        A == PairsOf(m, "A")
        B == PairsOf(m, "B")
    IN  PairsOf(m, "exact") = {} =>
          /\ (B = {} /\ A # {}) =>
                \E p \in A :
                   /\ best_match = PairField(p)
                   /\ \A q \in A : Len(PairKeyword(q)) <= Len(PairKeyword(p))
          /\ (B # {}) => best_match = FirstFieldOf(B)

\* C6 witness: a returned name containing two keywords of different lengths
\* that belong to different fields, the shorter one's field coming first in
\* the registry, and contained in no keyword
C6_Witness ==
  /\ dstate = "returned"
  /\ best_match # "Ignore"
  /\ LET m == MatchTable(NormalizedName)
         A == PairsOf(m, "A")
     IN  /\ PairsOf(m, "exact") = {}
         /\ PairsOf(m, "B") = {}
         /\ \E p \in A : \E q \in A :
               p[1] < q[1] /\ Len(PairKeyword(p)) < Len(PairKeyword(q))

\* C7: with no exact match, detect returns the first field in registry
\* order among those attaining the maximum candidate score (type A scores
\* the keyword's length, type B the name's length and only for names longer
\* than 2 characters).
C7_FirstFieldOfTopScoreWins ==
  dstate = "returned" =>
    LET m   == MatchTable(NormalizedName)
        hit == PairsOf(m, "A") \cup PairsOf(m, "B")
    IN  (PairsOf(m, "exact") = {} /\ hit # {}) => best_match = FirstFieldOf(TopOf(m))

\* C7 witness: a returned name whose top score is attained by keywords of
\* two different fields
C7_Witness ==
  /\ dstate = "returned"
  /\ best_match # "Ignore"
  /\ LET m == MatchTable(NormalizedName)
     IN  /\ PairsOf(m, "exact") = {}
         /\ \E p \in TopOf(m) : \E q \in TopOf(m) : p[1] # q[1]

\* C8: detect returns "Ignore" exactly when no keyword is an exact, type-A
\* or type-B match of the trimmed, lower-cased name; an empty or blank name
\* yields "Ignore".
C8_IgnoreIffNoMatch ==
  dstate = "returned" =>
    LET m == MatchTable(NormalizedName)
    IN  /\ (best_match = "Ignore") <=> (\A p \in RegistryPairs : m[p].how = "none")
        /\ NormalizedName = <<>> => best_match = "Ignore"

\* C8 witness: a name of one or two characters that occurs inside a keyword
\* but matches none, returned as "Ignore"
C8_Witness ==
  /\ dstate = "returned"
  /\ best_match = "Ignore"
  /\ Len(NormalizedName) \in {1, 2}
  /\ \E p \in RegistryPairs : Contains(NormalizedName, PairKeyword(p))

(***************************************************************************)
(* Cells of the working table.  A cell is a missing number (NaN), a        *)
(* missing date (NaT), a number, a text, a calendar date or a boolean.     *)
(* Numbers in the modelled tables are whole: the only fraction text that   *)
(* occurs is ".0".                                                         *)
(***************************************************************************)
NaN == [t |-> "nan", v |-> 0]
NaT == [t |-> "nat", v |-> 0]
Num(n) == [t |-> "num", v |-> n]
Str(s) == [t |-> "str", v |-> s]
Date(y, m, d) == [t |-> "date", v |-> <<y, m, d>>]
Bool(b) == [t |-> "bool", v |-> b]

\* pandas isna() of one cell
IsNA(c) == c.t \in {"nan", "nat"}

IsDigit(ch) == ch >= 48 /\ ch <= 57

RECURSIVE DigitsValue(_)
DigitsValue(s) ==
  IF s = <<>> THEN 0 ELSE 10 * DigitsValue(SubSeq(s, 1, Len(s) - 1)) + (s[Len(s)] - 48)

RECURSIVE NatToStr(_)
NatToStr(n) == IF n < 10 THEN <<48 + n>> ELSE NatToStr(n \div 10) \o <<48 + (n % 10)>>

IntToStr(n) == IF n < 0 THEN <<45>> \o NatToStr(0 - n) ELSE NatToStr(n)

\* zero-padded decimal of width w (strftime %Y, %m, %d)
RECURSIVE ZeroPad(_, _)
ZeroPad(s, w) == IF Len(s) >= w THEN s ELSE ZeroPad(<<48>> \o s, w)

\* strftime('%Y-%m-%d')
FormatDate(d) ==
  ZeroPad(NatToStr(d[1]), 4) \o <<45>> \o ZeroPad(NatToStr(d[2]), 2) \o <<45>>
    \o ZeroPad(NatToStr(d[3]), 2)

\* Series.astype(str) of one cell
ToStr(c) ==
  CASE c.t = "nan"  -> <<110,97,110>>
    [] c.t = "nat"  -> <<78,97,84>>
    [] c.t = "num"  -> IntToStr(c.v)
    [] c.t = "str"  -> c.v
    [] c.t = "date" -> FormatDate(c.v)
    [] c.t = "bool" -> IF c.v THEN <<84,114,117,101>> ELSE <<70,97,108,115,101>>

AllDigits(s) == s # <<>> /\ \A i \in 1..Len(s) : IsDigit(s[i])

\* pd.to_numeric(..., errors='coerce') of one text: an optional sign, digits,
\* an optional ".0..0"; "nan" and everything else give NaN
ParseNumber(s) ==
  LET signed == s # <<>> /\ s[1] \in {43, 45}
      body   == IF signed THEN SubSeq(s, 2, Len(s)) ELSE s
      dots   == {i \in 1..Len(body) : body[i] = 46}
      whole  == IF dots = {} THEN body ELSE SubSeq(body, 1, SetMin(dots) - 1)
      frac   == IF dots = {} THEN <<>> ELSE SubSeq(body, SetMin(dots) + 1, Len(body))
      value  == DigitsValue(whole)
  IN  IF AllDigits(whole) /\ \A i \in 1..Len(frac) : frac[i] = 48
        THEN Num(IF signed /\ s[1] = 45 THEN 0 - value ELSE value)
        ELSE NaN

\* pd.to_numeric(..., errors='coerce') of one cell of an object column
ToNumeric(c) ==
  CASE c.t = "num"  -> c
    [] c.t = "str"  -> ParseNumber(c.v)
    [] c.t = "bool" -> Num(IF c.v THEN 1 ELSE 0)
    [] OTHER        -> NaN

\* characters removed by the pattern [$,\u00A5\uFFE5,\uFF0C\s]: dollar, comma, yen,
\* full-width yen, full-width comma, whitespace
NumericNoise(ch) == ch \in {36, 44, 165, 65509, 65292} \/ IsSpace(ch)

NotNumericNoise(ch) == ~NumericNoise(ch)

\* .str.replace(r'[$,...\s]', '', regex=True)
StripNumericNoise(s) == SelectSeq(s, NotNumericNoise)

(***************************************************************************)
(* Calendar.                                                               *)
(***************************************************************************)
IsLeap(y) == (y % 4 = 0 /\ y % 100 # 0) \/ y % 400 = 0

DaysIn(y, m) ==
  IF m = 2 THEN (IF IsLeap(y) THEN 29 ELSE 28)
  ELSE IF m \in {4, 6, 9, 11} THEN 30 ELSE 31

ValidDate(y, m, d) == y >= 1 /\ m >= 1 /\ m <= 12 /\ d >= 1 /\ d <= DaysIn(y, m)

\* today - timedelta(days=1)
DayBefore(d) ==
  IF d[3] > 1 THEN <<d[1], d[2], d[3] - 1>>
  ELSE IF d[2] > 1 THEN <<d[1], d[2] - 1, DaysIn(d[1], d[2] - 1)>>
  ELSE <<d[1] - 1, 12, 31>>

\* today + timedelta(days=1)
DayAfter(d) ==
  IF d[3] < DaysIn(d[1], d[2]) THEN <<d[1], d[2], d[3] + 1>>
  ELSE IF d[2] < 12 THEN <<d[1], d[2] + 1, 1>>
  ELSE <<d[1] + 1, 1, 1>>

\* variant of NormalizeToken that keeps the letter case
NormalizeTokenNoLower(val) == Strip(val)

\* val_lower = str(val).lower().strip()
NormalizeToken(val) == Strip(Lower(val))

\* parse_relative_date(val), with datetime.now() = now
parse_relative_date(val, now) ==
  LET val_lower == NormalizeToken(val)
  IN  IF val_lower = <<121,101,115,116,101,114,100,97,121>> THEN FormatDate(DayBefore(now))
      ELSE IF val_lower = <<116,111,100,97,121>> THEN FormatDate(now)
      ELSE IF val_lower = <<116,111,109,111,114,114,111,119>> THEN FormatDate(DayAfter(now))
      ELSE val

\* the three numeric parts of "a<sep>b<sep>c" (one separator character used
\* twice), or <<>> when the text has another shape
DateParts(s, seps) ==
  LET at == {i \in 1..Len(s) : s[i] \in seps}
  IN  IF Cardinality(at) # 2 THEN <<>>
      ELSE LET i == SetMin(at)
               j == SetMax(at)
               a == SubSeq(s, 1, i - 1)
               b == SubSeq(s, i + 1, j - 1)
               c == SubSeq(s, j + 1, Len(s))
           IN  IF s[i] = s[j] /\ AllDigits(a) /\ AllDigits(b) /\ AllDigits(c)
                 THEN <<a, b, c>> ELSE <<>>

DateOrNaT(y, m, d) == IF ValidDate(y, m, d) THEN Date(y, m, d) ELSE NaT

\* variant of DayFirstSwap that always reads the first part as the month
DayFirstSwapNever(first, second) == FALSE

\* the delimited reading of pd.to_datetime with dayfirst=False: the first
\* part is the month unless it is larger than 12, and then it is the day
DayFirstSwap(first, second) == first > 12

\* pd.to_datetime(..., errors='coerce', format='mixed') of one text: a
\* four-digit year first reads year, month, day; a four-digit year last
\* reads month, day, year, or day, month, year when the first part cannot
\* be a month
FlexibleParse(s) ==
  LET p == DateParts(Strip(s), {45, 47, 46})
  IN  IF p = <<>> THEN NaT
      ELSE LET a == DigitsValue(p[1])
               b == DigitsValue(p[2])
               c == DigitsValue(p[3])
           IN  IF Len(p[1]) = 4 /\ Len(p[2]) <= 2 /\ Len(p[3]) <= 2
                 THEN DateOrNaT(a, b, c)
               ELSE IF Len(p[3]) = 4 /\ Len(p[1]) <= 2 /\ Len(p[2]) <= 2
                 THEN IF DayFirstSwap(a, b) THEN DateOrNaT(c, b, a) ELSE DateOrNaT(c, a, b)
               ELSE NaT

\* date_formats, each as the order of its fields and its separator
date_formats ==
  << [order |-> <<"Y", "m", "d">>, sep |-> 45],    \* %Y-%m-%d
     [order |-> <<"Y", "m", "d">>, sep |-> 47],    \* %Y/%m/%d
     [order |-> <<"m", "d", "Y">>, sep |-> 45],    \* %m-%d-%Y
     [order |-> <<"d", "m", "Y">>, sep |-> 45],    \* %d-%m-%Y
     [order |-> <<"Y", "m", "d">>, sep |-> 46],    \* %Y.%m.%d
     [order |-> <<"m", "d", "Y">>, sep |-> 47],    \* %m/%d/%Y
     [order |-> <<"d", "m", "Y">>, sep |-> 47] >>  \* %d/%m/%Y

\* pd.to_datetime(..., errors='coerce', format=fmt) of one text
ParseWithFormat(s, fmt) ==
  LET p == DateParts(s, {fmt.sep})
  IN  IF p = <<>> THEN NaT
      ELSE LET pos(k) == CHOOSE i \in 1..3 : fmt.order[i] = k
               ok     == /\ Len(p[pos("Y")]) = 4
                         /\ Len(p[pos("m")]) <= 2
                         /\ Len(p[pos("d")]) <= 2
           IN  IF ok THEN DateOrNaT(DigitsValue(p[pos("Y")]), DigitsValue(p[pos("m")]),
                                    DigitsValue(p[pos("d")]))
               ELSE NaT

(***************************************************************************)
(* The working table (a pandas DataFrame): column names, which may repeat  *)
(* after a rename, and rows of cells.                                      *)
(***************************************************************************)
EmptyTable == [columns |-> <<>>, rows |-> <<>>]

ColumnsNamed(t, name) == {i \in 1..Len(t.columns) : t.columns[i] = name}

\* has_field(field_name): field_name in df.columns
has_field(t, name) == ColumnsNamed(t, name) # {}

\* df[name] is a DataFrame, not a Series, when the name repeats; the
\* Series-only calls of the cleaners (.str, pd.to_numeric, pd.to_datetime)
\* then raise
IsFrame(t, name) == Cardinality(ColumnsNamed(t, name)) > 1

ColumnOf(t, name) == CHOOSE i \in ColumnsNamed(t, name) : TRUE

\* df[name] as the sequence of its cells
Column(t, name) == [r \in 1..Len(t.rows) |-> t.rows[r][ColumnOf(t, name)]]

\* variant of SetColumn that keeps only the rows whose new cell is present
SetColumnDroppingMissing(t, name, cells) ==
  LET RECURSIVE From(_)
      From(r) == IF r > Len(t.rows) THEN <<>>
                 ELSE (IF IsNA(cells[r]) THEN <<>>
                       ELSE << [t.rows[r] EXCEPT ![ColumnOf(t, name)] = cells[r]] >>) \o From(r + 1)
  IN  [t EXCEPT !.rows = From(1)]

\* df[name] = cells
SetColumn(t, name, cells) ==
  [t EXCEPT !.rows = [r \in 1..Len(t.rows) |->
                        [t.rows[r] EXCEPT ![ColumnOf(t, name)] = cells[r]]]]

\* df.rename(columns=pairs): every column named as a source gets its target
RenameColumns(t, pairs) ==
  [t EXCEPT !.columns =
     [i \in 1..Len(t.columns) |->
        IF \E k \in 1..Len(pairs) : pairs[k][1] = t.columns[i]
          THEN pairs[CHOOSE k \in 1..Len(pairs) : pairs[k][1] = t.columns[i]][2]
          ELSE t.columns[i]]]

CountWhere(cells, Test(_)) == Cardinality({r \in 1..Len(cells) : Test(cells[r])})

(***************************************************************************)
(* clean_excel, stage by stage.  A stage maps the running state st =       *)
(* [df, logs, failed] to the state after it; failed means an exception     *)
(* left clean_excel.  The loops bind the state after each field to a value *)
(* (s \in {...}) before going on to the next field.                        *)
(***************************************************************************)
\* 1. df.dropna(how='all')
DropEmptyRows(st) ==
  LET NotEmpty(row) == \E i \in 1..Len(row) : ~IsNA(row[i])
      kept          == SelectSeq(st.df.rows, NotEmpty)
      rows_removed  == Len(st.df.rows) - Len(kept)
  IN  [st EXCEPT !.df.rows = kept,
                 !.logs = IF rows_removed > 0
                            THEN Append(@, [msg |-> "RemovedEmptyRows", count |-> rows_removed])
                            ELSE @]

\* column_mapping: the legacy table, its repeated keys written once
column_mapping ==
  << <<"ID", "SaleID">>,
     <<"u59D3u540D", "CustomerName">>,
     <<"u5E74u9F84", "Age">>,
     <<"u6027u522B", "Gender">>,
     <<"u90AEu7BB1", "Email">>,
     <<"u6CE8u518Cu65E5u671F", "OrderDate">>,
     <<"u57CEu5E02", "City">>,
     <<"u6D88u8D39u91D1u989D", "TotalPrice">>,
     <<"u85AAu8D44", "TotalPrice">> >>

\* "if user_mapping:" - None and the empty dict are both false
MappingTruthy(mapping) == mapping.given /\ Len(mapping.pairs) > 0

\* 2. the primary rename
ApplyColumnMapping(st, mapping) ==
  IF MappingTruthy(mapping)
    THEN [st EXCEPT !.df = RenameColumns(@, mapping.pairs),
                    !.logs = @ \o << [msg |-> "AppliedUserMapping", count |-> Len(mapping.pairs)],
                                     [msg |-> "MappedFields",
                                      targets |-> [k \in 1..Len(mapping.pairs) |-> mapping.pairs[k][2]]] >>]
    ELSE [st EXCEPT !.df = RenameColumns(@, column_mapping),
                    !.logs = Append(@, [msg |-> "AppliedDefaultMapping"])]

fallback_mapping ==
  << <<"Wage", "TotalPrice">>, <<"u85AAu8D44", "TotalPrice">>, <<"join_date", "OrderDate">> >>

\* variant of ShouldAutoMap that does not look at the target
ShouldAutoMapSourceOnly(t, source, target) == has_field(t, source)

\* source in df.columns and target not in df.columns
ShouldAutoMap(t, source, target) == has_field(t, source) /\ ~has_field(t, target)

\* 3. the fallback pass, from pair i on
RECURSIVE FallbackPass(_, _)
FallbackPass(st, i) ==
  IF i > Len(fallback_mapping) THEN st
  ELSE LET source == fallback_mapping[i][1]
           target == fallback_mapping[i][2]
           step   == IF ShouldAutoMap(st.df, source, target)
                       THEN [st EXCEPT !.df = RenameColumns(@, << <<source, target>> >>),
                                       !.logs = Append(@, [msg |-> "AutoMapped",
                                                           source |-> source,
                                                           target |-> target])]
                       ELSE st
       IN  CHOOSE after \in {FallbackPass(s, i + 1) : s \in {step}} : TRUE

numeric_fields == <<"TotalPrice", "UnitPrice", "Quantity", "Revenue", "Cost", "Rating", "Salary">>

\* variant of IsFinancialField that fills every numeric field
IsFinancialFieldAll(field) == TRUE

\* field in ['TotalPrice', 'UnitPrice', 'Revenue', 'Cost']
IsFinancialField(field) == field \in {"TotalPrice", "UnitPrice", "Revenue", "Cost"}

\* df[field].fillna(0)
FillNA0(cells) == [r \in 1..Len(cells) |-> IF IsNA(cells[r]) THEN Num(0) ELSE cells[r]]

\* the body of the numeric loop for one field
CleanNumericField(st, field) ==
  IF ~has_field(st.df, field) THEN st
  ELSE IF IsFrame(st.df, field) THEN [st EXCEPT !.failed = TRUE]
  ELSE
    LET raw           == Column(st.df, field)
        parsed        == [r \in 1..Len(raw) |-> ParseNumber(StripNumericNoise(ToStr(raw[r])))]
        invalid_count == CountWhere(parsed, IsNA)
    IN  IF IsFinancialField(field)
          THEN IF invalid_count > 0
                 THEN [st EXCEPT !.df = SetColumn(@, field, FillNA0(parsed)),
                                 !.logs = Append(@, [msg |-> "FinancialReplaced", field |-> field,
                                                     count |-> invalid_count])]
                 ELSE [st EXCEPT !.df = SetColumn(@, field, parsed),
                                 !.logs = Append(@, [msg |-> "FinancialCleaned", field |-> field])]
          ELSE [st EXCEPT !.df = SetColumn(@, field, parsed),
                          !.logs = Append(@, [msg |-> "NumericConverted", field |-> field])]

\* the loop "for field, label in numeric_fields.items()", from field i on,
\* stopped by an exception
RECURSIVE NumericLoop(_, _)
NumericLoop(st, i) ==
  IF i > Len(numeric_fields) \/ st.failed THEN st
  ELSE CHOOSE after \in {NumericLoop(s, i + 1) : s \in {CleanNumericField(st, numeric_fields[i])}} : TRUE

\* 3. numeric and financial fields
CleanNumeric(st) == NumericLoop(st, 1)

\* (df['Age'] >= 0) & (df['Age'] <= 150): false for NaN
AgeInRange(c) == c.t = "num" /\ c.v >= 0 /\ c.v <= 150

\* (df['Age'] < 0) | (df['Age'] > 150): false for NaN
AgeOutOfRange(c) == c.t = "num" /\ (c.v < 0 \/ c.v > 150)

\* 4. the Age filter
CleanAge(st) ==
  IF ~has_field(st.df, "Age") THEN st
  ELSE IF IsFrame(st.df, "Age") THEN [st EXCEPT !.failed = TRUE]
  ELSE
    LET numeric           == [r \in 1..Len(st.df.rows) |-> ToNumeric(Column(st.df, "Age")[r])]
        converted         == SetColumn(st.df, "Age", numeric)
        at                == ColumnOf(st.df, "Age")
        invalid_age_count == CountWhere(numeric, AgeOutOfRange)
        Keep(row)         == AgeInRange(row[at])
    IN  [st EXCEPT !.df = [converted EXCEPT !.rows = SelectSeq(converted.rows, Keep)],
                   !.logs = IF invalid_age_count > 0
                              THEN Append(@, [msg |-> "AgeFiltered", count |-> invalid_age_count])
                              ELSE Append(@, [msg |-> "AgeConverted"])]

date_fields == <<"OrderDate", "Join_Date">>

\* pd.to_datetime(cells, format=fmt) of a datetime column: dates stay,
\* missing stays missing, a text is parsed
ToDatetimeWithFormat(c, fmt) ==
  CASE c.t = "date" -> c
    [] c.t = "str"  -> ParseWithFormat(c.v, fmt)
    [] OTHER        -> NaT

\* the retry loop over date_formats: cells holds the column after the
\* automatic parse, and every format is tried on the rows still missing
RECURSIVE ExplicitFormats(_, _)
ExplicitFormats(cells, i) ==
  IF i > Len(date_formats) \/ ~(\E r \in 1..Len(cells) : IsNA(cells[r])) THEN cells
  ELSE CHOOSE after \in
         {ExplicitFormats(c, i + 1) :
            c \in {[r \in 1..Len(cells) |->
                      IF IsNA(cells[r]) THEN ToDatetimeWithFormat(cells[r], date_formats[i])
                      ELSE cells[r]]}} : TRUE

RelativeDateAlways(val, now) == FormatDate(now)

\* df[date_field].apply(parse_relative_date)
RelativeDate(val, now) == parse_relative_date(val, now)

\* the body of the date loop for one field; now is datetime.now()
CleanDateField(st, date_field, now) ==
  IF ~has_field(st.df, date_field) THEN st
  ELSE IF IsFrame(st.df, date_field) THEN [st EXCEPT !.failed = TRUE]
  ELSE
    LET raw            == Column(st.df, date_field)
        original_count == Len(st.df.rows)
        relative       == [r \in 1..Len(raw) |-> RelativeDate(ToStr(raw[r]), now)]
        automatic      == [r \in 1..Len(raw) |-> FlexibleParse(relative[r])]
        Finish(final)  ==
          LET parsed_count == original_count - CountWhere(final, IsNA)
          IN  [st EXCEPT !.df = SetColumn(@, date_field, final),
                         !.logs = IF original_count > parsed_count
                                    THEN Append(@, [msg |-> "DateSomeUnparsed",
                                                    field |-> date_field,
                                                    parsed |-> parsed_count,
                                                    total |-> original_count])
                                    ELSE Append(@, [msg |-> "DateAllParsed",
                                                    field |-> date_field])]
    IN  CHOOSE after \in {Finish(ExplicitFormats(a, 1)) : a \in {automatic}} : TRUE

\* the loop "for date_field in date_fields", from field i on
RECURSIVE DateLoop(_, _, _)
DateLoop(st, now, i) ==
  IF i > Len(date_fields) \/ st.failed THEN st
  ELSE CHOOSE after \in {DateLoop(s, now, i + 1) : s \in {CleanDateField(st, date_fields[i], now)}} : TRUE

\* 5. date fields
CleanDates(st, now) == DateLoop(st, now, 1)

\* df[field].astype(str).str.strip()
TrimCell(c) == Str(Strip(ToStr(c)))

\* variant of TrimField that puts its entry at the head of the log
TrimFieldPrepending(st, field, msg) ==
  IF ~has_field(st.df, field) THEN st
  ELSE IF IsFrame(st.df, field) THEN [st EXCEPT !.failed = TRUE]
  ELSE [st EXCEPT !.df = SetColumn(@, field,
                           [r \in 1..Len(st.df.rows) |-> TrimCell(Column(st.df, field)[r])]),
                  !.logs = <<[msg |-> msg, field |-> field]>> \o @]

\* the body of the loops that only trim: location, status, notes
TrimField(st, field, msg) ==
  IF ~has_field(st.df, field) THEN st
  ELSE IF IsFrame(st.df, field) THEN [st EXCEPT !.failed = TRUE]
  ELSE [st EXCEPT !.df = SetColumn(@, field,
                           [r \in 1..Len(st.df.rows) |-> TrimCell(Column(st.df, field)[r])]),
                  !.logs = Append(@, [msg |-> msg, field |-> field])]

\* a trimming loop over fields, from field i on
RECURSIVE TrimLoop(_, _, _, _)
TrimLoop(st, fields, msg, i) ==
  IF i > Len(fields) \/ st.failed THEN st
  ELSE CHOOSE after \in {TrimLoop(s, fields, msg, i + 1) : s \in {TrimField(st, fields[i], msg)}} : TRUE

text_fields == <<"CustomerName", "ProductName">>

invalid_names == << <<100,111,117,98,108,101,32,99,108,101,97,110>> >>

\* df[field].str.contains(pattern, case=False)
IsInvalidName(c) == \E k \in 1..Len(invalid_names) : Contains(invalid_names[k], Lower(c.v))

\* the body of the text loop for one field
CleanTextField(st, field) ==
  IF ~has_field(st.df, field) THEN st
  ELSE IF IsFrame(st.df, field) THEN [st EXCEPT !.failed = TRUE]
  ELSE
    LET trimmed == [r \in 1..Len(st.df.rows) |-> TrimCell(Column(st.df, field)[r])]
        hits    == CountWhere(trimmed, IsInvalidName)
        cleared == [r \in 1..Len(trimmed) |->
                      IF IsInvalidName(trimmed[r]) THEN Str(<<>>) ELSE trimmed[r]]
    IN  IF field = "CustomerName" /\ hits > 0
          THEN [st EXCEPT !.df = SetColumn(@, field, cleared),
                          !.logs = @ \o << [msg |-> "InvalidNamesRemoved", field |-> field,
                                            count |-> hits],
                                           [msg |-> "Trimmed", field |-> field] >>]
          ELSE [st EXCEPT !.df = SetColumn(@, field, trimmed),
                          !.logs = Append(@, [msg |-> "Trimmed", field |-> field])]

\* the loop "for field, label in text_fields.items()", from field i on
RECURSIVE TextLoop(_, _)
TextLoop(st, i) ==
  IF i > Len(text_fields) \/ st.failed THEN st
  ELSE CHOOSE after \in {TextLoop(s, i + 1) : s \in {CleanTextField(st, text_fields[i])}} : TRUE

\* 6. customer and product names
CleanText(st) == TextLoop(st, 1)

location_fields == <<"Province", "City", "Address">>

\* 7. location fields
CleanLocation(st) == TrimLoop(st, location_fields, "Trimmed", 1)

\* kept by the pattern [^\d+\-() ]
PhoneChar(ch) == IsDigit(ch) \/ ch \in {43, 45, 40, 41, 32}

\* 8. phone
CleanPhone(st) ==
  IF ~has_field(st.df, "Phone") THEN st
  ELSE IF IsFrame(st.df, "Phone") THEN [st EXCEPT !.failed = TRUE]
  ELSE [st EXCEPT !.df = SetColumn(@, "Phone",
                           [r \in 1..Len(st.df.rows) |->
                              Str(Strip(SelectSeq(ToStr(Column(st.df, "Phone")[r]), PhoneChar)))]),
                  !.logs = Append(@, [msg |-> "CleanedPhone", field |-> "Phone"])]

\* variant of NormalizeEmail that keeps the letter case
NormalizeEmailKeepCase(s) ==
  LET low == Strip(s)
  IN  [i \in 1..Len(low) |-> IF low[i] \in {35, 65283, 65312} THEN 64 ELSE low[i]]

\* .str.strip().str.lower() and the three replacements by '@'
NormalizeEmail(s) ==
  LET low == Lower(Strip(s))
  IN  [i \in 1..Len(low) |-> IF low[i] \in {35, 65283, 65312} THEN 64 ELSE low[i]]

\* 9. email
CleanEmail(st) ==
  IF ~has_field(st.df, "Email") THEN st
  ELSE IF IsFrame(st.df, "Email") THEN [st EXCEPT !.failed = TRUE]
  ELSE [st EXCEPT !.df = SetColumn(@, "Email",
                           [r \in 1..Len(st.df.rows) |->
                              Str(NormalizeEmail(ToStr(Column(st.df, "Email")[r])))]),
                  !.logs = Append(@, [msg |-> "CleanedEmail", field |-> "Email"])]

status_fields == <<"Status", "Type", "Category", "Level", "Gender", "Department">>

\* variant of CleanStatus that fills Status from the City column
CleanStatusFromCity(st) ==
  IF has_field(st.df, "Status") /\ has_field(st.df, "City")
       /\ ~IsFrame(st.df, "Status") /\ ~IsFrame(st.df, "City")
    THEN [st EXCEPT !.df = SetColumn(@, "Status", Column(st.df, "City")),
                    !.logs = Append(@, [msg |-> "TrimmedStandardized", field |-> "Status"])]
    ELSE TrimLoop(st, status_fields, "TrimmedStandardized", 1)

\* 10. status and category fields
CleanStatus(st) == TrimLoop(st, status_fields, "TrimmedStandardized", 1)

\* ['true', '1', 'yes', '\u662F', 'y', 't']
affirmative == { <<116,114,117,101>>, <<49>>, <<121,101,115>>, <<26159>>, <<121>>, <<116>> }

\* 11. IsValid
CleanIsValid(st) ==
  IF ~has_field(st.df, "IsValid") THEN st
  ELSE IF IsFrame(st.df, "IsValid") THEN [st EXCEPT !.failed = TRUE]
  ELSE [st EXCEPT !.df = SetColumn(@, "IsValid",
                           [r \in 1..Len(st.df.rows) |->
                              Bool(Lower(ToStr(Column(st.df, "IsValid")[r])) \in affirmative)]),
                  !.logs = Append(@, [msg |-> "CleanedIsValid", field |-> "IsValid"])]

text_note_fields == <<"Description", "Remarks", "SKU", "Model", "ProductCategory">>

\* 12. text and note fields
CleanNotes(st) == TrimLoop(st, text_note_fields, "Trimmed", 1)

\* variant of dedup_fields that takes Phone whenever it is a column
dedup_fields_phone_always(t) ==
  (IF has_field(t, "SaleID") THEN <<"SaleID">> ELSE <<>>)
  \o (IF has_field(t, "Email") THEN <<"Email">> ELSE <<>>)
  \o (IF has_field(t, "Phone") THEN <<"Phone">> ELSE <<>>)

\* dedup_fields, built from the columns present
dedup_fields(t) ==
  (IF has_field(t, "SaleID") THEN <<"SaleID">> ELSE <<>>)
  \o (IF has_field(t, "Email") THEN <<"Email">> ELSE <<>>)
  \o (IF has_field(t, "Phone") /\ ~has_field(t, "Email") THEN <<"Phone">> ELSE <<>>)

\* the cells of a row that drop_duplicates(subset=fields) compares: those
\* of every column whose name is in fields
KeyOf(t, fields, row) ==
  LET at == {i \in 1..Len(t.columns) : \E k \in 1..Len(fields) : fields[k] = t.columns[i]}
  IN  [i \in at |-> row[i]]

\* variant of DropDuplicates that keeps the last occurrence
DropDuplicatesKeepLast(t, fields) ==
  LET last == {r \in 1..Len(t.rows) :
                 ~\E q \in (r + 1)..Len(t.rows) :
                    KeyOf(t, fields, t.rows[q]) = KeyOf(t, fields, t.rows[r])}
      RECURSIVE Pick(_)
      Pick(r) == IF r > Len(t.rows) THEN <<>>
                 ELSE (IF r \in last THEN <<t.rows[r]>> ELSE <<>>) \o Pick(r + 1)
  IN  [t EXCEPT !.rows = Pick(1)]

\* df.drop_duplicates(subset=fields, keep='first')
DropDuplicates(t, fields) ==
  LET first == {r \in 1..Len(t.rows) :
                  ~\E q \in 1..(r - 1) : KeyOf(t, fields, t.rows[q]) = KeyOf(t, fields, t.rows[r])}
      RECURSIVE Pick(_)
      Pick(r) == IF r > Len(t.rows) THEN <<>>
                 ELSE (IF r \in first THEN <<t.rows[r]>> ELSE <<>>) \o Pick(r + 1)
  IN  [t EXCEPT !.rows = Pick(1)]

\* 13. deduplication
Deduplicate(st) ==
  LET fields == dedup_fields(st.df)
  IN  IF fields = <<>> THEN st
      ELSE LET after              == DropDuplicates(st.df, fields)
               duplicates_removed == Len(st.df.rows) - Len(after.rows)
           IN  [st EXCEPT !.df = after,
                          !.logs = IF duplicates_removed > 0
                                     THEN Append(@, [msg |-> "RemovedDuplicates",
                                                     count |-> duplicates_removed,
                                                     fields |-> fields])
                                     ELSE @]

(***************************************************************************)
(* Tables and mappings handed to clean_excel.                              *)
(***************************************************************************)
\* most rows of a generated table
MaxRows == 2

\* datetime.now() of the run: a first of March in a leap year and a last
\* day of a year, so that "yesterday" and "tomorrow" cross a month or year
Todays == { <<2024, 3, 1>>, <<2023, 12, 31>> }

\* one column of values per cleaner, and two-column tables for the row
\* filters and the deduplication key
TableFamilies ==
  { [columns |-> <<"TotalPrice">>,
     domains |-> << {Str(<<36,49,44,50,48,48>>), Str(<<165,53,48,48>>), Str(<<98,97,100>>), Str(<<>>), NaN, Num(12)} >>],
    [columns |-> <<"Quantity">>,
     domains |-> << {Str(<<49,32,48>>), Str(<<110,47,97>>), NaN, Num(5)} >>],
    [columns |-> <<"Cost">>,
     domains |-> << {Str(<<45,51,46,48>>), Str(<<65509,52,65292,48,48,48>>), Str(<<49,46,50,46,51>>)} >>],
    [columns |-> <<"Age">>,
     domains |-> << {Num(0 - 5), Num(0), Num(30), Num(150), Num(151), Num(200), NaN,
                     Str(<<97,98,99>>)} >>],
    [columns |-> <<"OrderDate">>,
     domains |-> << {Str(<<50,48,50,51,45,48,49,45,48,53>>), Str(<<121,101,115,116,101,114,100,97,121>>), Str(<<110,111,116,32,97,32,100,97,116,101>>),
                     Str(<<32,84,111,100,97,121,32>>), Str(<<84,79,77,79,82,82,79,87>>), Str(<<50,48,47,48,51,47,50,48,50,51>>),
                     Str(<<50,48,50,52,46,48,50,46,51,48>>), NaN} >>],
    [columns |-> <<"Join_Date">>,
     domains |-> << {Str(<<48,51,45,50,48,45,50,48,50,51>>), Str(<<50,48,45,48,51,45,50,48,50,51>>), Str(<<48,49,45,48,50,45,50,48,50,51>>),
                     Str(<<48,49,47,48,50,47,50,48,50,51>>), Str(<<50,48,50,52,46,48,53,46,49,50>>), Str(<<50,48,50,51,47,48,50,47,49,53>>),
                     Str(<<48,50,45,51,48,45,50,48,50,51>>), Str(<<50,48,46,48,51,46,50,48,50,51>>)} >>],
    [columns |-> <<"Join_Date">>,
     domains |-> << {Str(<<48,51,45,50,48,45,50,48,50,51>>), Date(2023, 2, 15), Str(<<115,111,111,110>>)} >>],
    [columns |-> <<"CustomerName">>,
     domains |-> << {Str(<<32,65,108,105,99,101,32>>), Str(<<68,111,117,98,108,101,32,67,108,101,97,110>>), Str(<<120,32,100,111,117,98,108,101,32,99,108,101,97,110>>), NaN} >>],
    [columns |-> <<"CustomerName", "Memo">>,
     domains |-> << {Str(<<66,111,98>>), Str(<<68,79,85,66,76,69,32,67,76,69,65,78>>), NaN}, {Str(<<109>>)} >>],
    [columns |-> <<"Phone">>,
     domains |-> << {Str(<<32,43,49,32,40,53,53,53,41,32,48,49,48,45,57,57,32,101,120,116,46,55>>), Num(5550100), NaN} >>],
    [columns |-> <<"Email">>,
     domains |-> << {Str(<<32,66,111,98,35,77,97,105,108,46,111,114,103,32>>), Str(<<98,111,98,64,109,97,105,108,46,111,114,103>>), Str(<<98,111,98,65312,109,97,105,108,46,111,114,103>>), NaN} >>],
    [columns |-> <<"IsValid">>,
     domains |-> << {Str(<<89,101,115>>), Str(<<110,111>>), Bool(TRUE), Num(1), Str(<<26159>>), NaN} >>],
    [columns |-> <<"City", "Status">>,
     domains |-> << {Str(<<32,79,115,108,111,32>>), NaN}, {Str(<<111,112,101,110,32>>), Num(1)} >>],
    [columns |-> <<"ProductName", "Remarks">>,
     domains |-> << {Str(<<32,80,101,110>>), NaN}, {Str(<<111,107,32>>), NaN} >>],
    [columns |-> <<"SaleID", "Email">>,
     domains |-> << {Num(1), Num(2), NaN}, {Str(<<97,64,120,46,105,111>>), Str(<<65,35,120,46,105,111>>), NaN} >>],
    [columns |-> <<"Phone", "Email">>,
     domains |-> << {Str(<<53,53,53>>), Str(<<53,53,54>>)}, {Str(<<97,64,120,46,105,111>>), Str(<<98,64,120,46,105,111>>)} >>],
    [columns |-> <<"SaleID", "Phone">>,
     domains |-> << {Num(1), Num(2)}, {Str(<<53,53,53>>), Str(<<53,45,53,45,53>>)} >>],
    [columns |-> <<"Age", "Email">>,
     domains |-> << {Num(30), Num(200), NaN}, {Str(<<97,64,120,46,105,111>>), Str(<<98,64,120,46,105,111>>), NaN} >> ] }

RowsOver(domains) ==
  {row \in [1..Len(domains) -> UNION {domains[i] : i \in 1..Len(domains)}] :
     \A i \in 1..Len(domains) : row[i] \in domains[i]}

TablesOf(fam) ==
  {[columns |-> fam.columns, rows |-> rs] :
     rs \in UNION {[1..k -> RowsOver(fam.domains)] : k \in 0..MaxRows}}

OneColumn(name, cells) ==
  [columns |-> <<name>>, rows |-> [r \in 1..Len(cells) |-> <<cells[r]>>]]

\* the tables of the documented examples
TotalPriceExample ==
  OneColumn("TotalPrice", <<Str(<<36,49,44,50,48,48>>), Str(<<165,53,48,48>>), Str(<<98,97,100>>), Str(<<>>)>>)
AgeExample == OneColumn("Age", <<Num(0 - 5), Num(30), Num(200), Num(45)>>)
OrderDateExample ==
  OneColumn("OrderDate", <<Str(<<50,48,50,51,45,48,49,45,48,53>>), Str(<<121,101,115,116,101,114,100,97,121>>), Str(<<110,111,116,32,97,32,100,97,116,101>>)>>)

ExampleTables == {TotalPriceExample, AgeExample, OrderDateExample}

ValueTables == UNION {TablesOf(fam) : fam \in TableFamilies} \cup ExampleTables

\* raw headers: legacy names, fallback names, canonical names, an unknown
HeaderPool ==
  {"ID", "u5E74u9F84", "u6D88u8D39u91D1u989D", "u85AAu8D44", "Wage", "join_date",
   "TotalPrice", "OrderDate", "Memo"}

HeaderLists ==
  {<<a>> : a \in HeaderPool} \cup {h \in HeaderPool \X HeaderPool : h[1] # h[2]}

\* one row under the headers: a date under a date header, a number elsewhere
HeaderTables ==
  {[columns |-> h,
    rows |-> << [i \in 1..Len(h) |->
                   IF h[i] \in {"join_date", "OrderDate"} THEN Str(<<50,48,50,51,45,48,49,45,48,53>>)
                   ELSE Str(<<55>>)] >>] : h \in HeaderLists}

\* canonical fields a caller maps raw headers to
MapTargets == {"TotalPrice", "OrderDate", "SaleID"}

NoMapping == [given |-> FALSE, pairs |-> <<>>]

\* the dicts {header: target} over some of the headers, in header order
RECURSIVE MappingsOver(_)
MappingsOver(h) ==
  IF h = <<>> THEN {<<>>}
  ELSE LET rest == MappingsOver(Tail(h))
       IN  rest \cup {<< <<Head(h), t>> >> \o m : t \in MapTargets, m \in rest}

\* two alternate names of one target left untouched by the caller's mapping
LeftoverScenario ==
  [table   |-> [columns |-> <<"u85AAu8D44", "Wage", "Memo">>,
                rows    |-> << <<Str(<<55>>), Str(<<56>>), Str(<<57>>)>> >>],
   mapping |-> [given |-> TRUE, pairs |-> << <<"Memo", "SaleID">> >>]]

\* a workbook whose sheet is empty: a table without columns
EmptySheetScenario == [table |-> EmptyTable, mapping |-> NoMapping]

Scenarios ==
  {LeftoverScenario, EmptySheetScenario}
  \cup {[table |-> t, mapping |-> NoMapping] : t \in ValueTables}
  \cup {[table |-> t, mapping |-> m] :
          t \in HeaderTables, m \in {NoMapping}}
  \cup UNION {{[table |-> t, mapping |-> [given |-> TRUE, pairs |-> p]] :
                 p \in MappingsOver(t.columns)} : t \in HeaderTables}

HasDateColumn(t) == \E i \in 1..Len(t.columns) : t.columns[i] \in {"OrderDate", "Join_Date", "join_date", "u6CE8u518Cu65E5u671F"}

\* before any invocation has returned
NoPrevious == [df |-> EmptyTable, logs |-> <<>>, today |-> <<2024, 3, 1>>]

NoResult == [returned |-> FALSE, has_df |-> FALSE, df |-> EmptyTable, summary |-> "none"]

DetectorIdle ==
  /\ column_name = <<>>
  /\ best_match = "none"
  /\ dstate = "idle"

\* a file that cannot be loaded, with or without a mapping
LoadFailures ==
  {[file |-> [state |-> s, table |-> EmptyTable], mapping |-> m] :
     s \in {"missing", "corrupt"}, m \in {NoMapping, [given |-> TRUE, pairs |-> <<>>]}}

Init ==
  /\ DetectorIdle
  /\ \/ \E s \in Scenarios :
          /\ file = [state |-> "ok", table |-> s.table]
          /\ user_mapping = s.mapping
          /\ today \in (IF HasDateColumn(s.table) THEN Todays ELSE {<<2024, 3, 1>>})
     \/ \E s \in LoadFailures :
          /\ file = s.file
          /\ user_mapping = s.mapping
          /\ today = <<2024, 3, 1>>
  /\ client \in BOOLEAN
  /\ pc = "read"
  /\ df = EmptyTable
  /\ logs = <<>>
  /\ result = NoResult
  /\ ui = <<>>
  /\ run = "first"
  /\ previous = NoPrevious
  /\ ConcurrencyIdle

(***************************************************************************)
(* clean_excel as a state machine: one action per stage.                   *)
(***************************************************************************)
\* os.path.exists and pd.read_excel
ReadExcel ==
  /\ pc = "read"
  /\ \/ /\ file.state = "missing"
        /\ result' = [returned |-> TRUE, has_df |-> FALSE, df |-> EmptyTable,
                      summary |-> "File not found"]
        /\ pc' = "load_failed"
        /\ UNCHANGED <<df, logs>>
     \/ /\ file.state = "corrupt"
        /\ result' = [returned |-> TRUE, has_df |-> FALSE, df |-> EmptyTable,
                      summary |-> "Error reading file"]
        /\ pc' = "load_failed"
        /\ UNCHANGED <<df, logs>>
     \/ /\ file.state = "ok"
        /\ df' = file.table
        /\ logs' = <<>>
        /\ pc' = "dropna"
        /\ UNCHANGED result
  /\ UNCHANGED <<file, user_mapping, today, client, ui, run, previous, cvars, dvars>>

\* a stage of clean_excel: from position at to position next through Run
Stage(at, next, Run(_)) ==
  /\ pc = at
  /\ \E st \in {Run([df |-> df, logs |-> logs, failed |-> FALSE])} :
       IF st.failed
         THEN pc' = "failed" /\ UNCHANGED <<df, logs>>
         ELSE pc' = next /\ df' = st.df /\ logs' = st.logs
  /\ UNCHANGED <<file, user_mapping, today, client, result, ui, run, previous, cvars, dvars>>

DropNaStage == Stage("dropna", "mapping", DropEmptyRows)

MappingStage ==
  LET Run(st) == ApplyColumnMapping(st, user_mapping)
  IN  Stage("mapping", "fallback", Run)

FallbackStage ==
  LET Run(st) == FallbackPass(st, 1)
  IN  Stage("fallback", "numeric", Run)

NumericStage == Stage("numeric", "age", CleanNumeric)

AgeStage == Stage("age", "date", CleanAge)

DateStage ==
  LET Run(st) == CleanDates(st, today)
  IN  Stage("date", "text", Run)

TextStage == Stage("text", "location", CleanText)

LocationStage == Stage("location", "phone", CleanLocation)

PhoneStage == Stage("phone", "email", CleanPhone)

EmailStage == Stage("email", "status", CleanEmail)

StatusStage == Stage("status", "isvalid", CleanStatus)

IsValidStage == Stage("isvalid", "notes", CleanIsValid)

NotesStage == Stage("notes", "dedup", CleanNotes)

DedupStage == Stage("dedup", "summary", Deduplicate)

\* generate_summary(df, logs): what it returns or raises.  Without a client
\* it returns the placeholder; with one, df.describe() raises on a table
\* without columns before the try, and inside the try the call returns the
\* commentary or fails into one of the two except branches
generate_summary(has_client, t) ==
  IF ~has_client
    THEN {[raised |-> FALSE, text |-> "AI Summary Skipped (Client not initialized)."]}
  ELSE IF t.columns = <<>>
    THEN {[raised |-> TRUE, text |-> "Cannot describe a DataFrame without columns"]}
  ELSE {[raised |-> FALSE, text |-> "AI text"],
        [raised |-> FALSE, text |-> "AI Error"],
        [raised |-> FALSE, text |-> "Error generating summary"]}

\* generate_summary and the return of (df, summary)
SummaryStage ==
  /\ pc = "summary"
  /\ \E out \in generate_summary(client, df) :
       IF out.raised
         THEN pc' = "failed" /\ UNCHANGED result
         ELSE /\ result' = [returned |-> TRUE, has_df |-> TRUE, df |-> df, summary |-> out.text]
              /\ pc' = "done"
  /\ UNCHANGED <<file, user_mapping, today, client, df, logs, ui, run, previous, cvars, dvars>>

\* main after the call: a returned pair is shown under a success banner; a
\* None table then makes df_cleaned.head() raise into the handler that also
\* reports an exception raised inside clean_excel
Report ==
  /\ \/ /\ pc = "done"
        /\ ui' = << [kind |-> "success", text |-> "Cleaning Complete", detail |-> ""] >>
     \/ /\ pc = "load_failed"
        /\ ui' = << [kind |-> "success", text |-> "Cleaning Complete", detail |-> ""],
                    [kind |-> "error", text |-> "Processing failed",
                     detail |-> "'NoneType' object has no attribute 'head'"] >>
     \/ /\ pc = "failed"
        /\ ui' = << [kind |-> "error", text |-> "Processing failed",
                     detail |-> "exception of the stage"] >>
  /\ pc' = "reported"
  /\ UNCHANGED <<file, user_mapping, today, client, df, logs, result, run, previous, cvars, dvars>>

Next ==
  \/ ReadExcel
  \/ DropNaStage
  \/ MappingStage
  \/ FallbackStage
  \/ NumericStage
  \/ AgeStage
  \/ DateStage
  \/ TextStage
  \/ LocationStage
  \/ PhoneStage
  \/ EmailStage
  \/ StatusStage
  \/ IsValidStage
  \/ NotesStage
  \/ DedupStage
  \/ SummaryStage
  \/ Report

Spec == Init /\ [][Next]_vars

(***************************************************************************)
(* A second invocation after the first has returned.                       *)
(***************************************************************************)
\* texts pd.read_excel reads as missing (its default NA values)
na_values == { <<>>, <<110,97,110>>, <<78,97,78>>, <<78,97,84>>, <<110,47,97>>, <<78,47,65>>, <<78,65>>, <<110,117,108,108>>, <<78,85,76,76>>, <<78,111,110,101>> }

\* a cell written by df.to_excel and read again by pd.read_excel: a missing
\* value is written as a blank cell; a blank cell or an NA text is read as
\* missing, as NaT in a column that holds dates and as NaN elsewhere; any
\* other cell is read as it was written
CellToExcelAndBack(c, dated) ==
  IF IsNA(c) \/ (c.t = "str" /\ c.v \in na_values)
    THEN (IF dated THEN NaT ELSE NaN)
    ELSE c

\* the header row read again: pd.read_excel renames a repeated name to name.1
HeaderToExcelAndBack(columns) ==
  [i \in 1..Len(columns) |->
     IF \E j \in 1..(i - 1) : columns[j] = columns[i] THEN columns[i] \o ".1" ELSE columns[i]]

\* df.to_excel(...) followed by pd.read_excel(...)
ToExcelAndBack(t) ==
  LET dated(i) == \E r \in 1..Len(t.rows) : t.rows[r][i].t = "date"
  IN  [columns |-> HeaderToExcelAndBack(t.columns),
       rows    |-> [r \in 1..Len(t.rows) |->
                      [i \in 1..Len(t.columns) |-> CellToExcelAndBack(t.rows[r][i], dated(i))]]]

\* what the second invocation starts from, given its input and its date
StartAgain(kind, input, now) ==
  /\ pc = "done"
  /\ run = "first"
  /\ run' = kind
  /\ previous' = [df |-> result.df, logs |-> logs, today |-> today]
  /\ file' = input
  /\ today' = now
  /\ pc' = "read"
  /\ df' = EmptyTable
  /\ logs' = <<>>
  /\ result' = NoResult
  /\ UNCHANGED <<user_mapping, client, ui, cvars, dvars>>

\* the same file and mapping cleaned once more, possibly on another day
RerunSameInput ==
  \E now \in Todays : StartAgain("same_input", file, now)

\* the saved output of the first invocation cleaned with the same mapping
RerunOnOutput ==
  StartAgain("own_output", [state |-> "ok", table |-> ToExcelAndBack(result.df)], today)

NextTwice ==
  \/ Next
  \/ RerunSameInput
  \/ RerunOnOutput

SpecTwice == Init /\ [][NextTwice]_vars

(***************************************************************************)
(* Pipeline claims.                                                        *)
(***************************************************************************)
\* positions of clean_excel at which the table has been loaded
Loaded == {"dropna", "mapping", "fallback", "numeric", "age", "date", "text", "location",
           "phone", "email", "status", "isvalid", "notes", "dedup", "summary", "done"}

\* positions after the primary rename
Mapped == Loaded \ {"dropna", "mapping"}

\* a column list renamed by a dict given as pairs
RenamedBy(columns, pairs) ==
  [i \in 1..Len(columns) |->
     IF \E k \in 1..Len(pairs) : pairs[k][1] = columns[i]
       THEN pairs[CHOOSE k \in 1..Len(pairs) : pairs[k][1] = columns[i]][2]
       ELSE columns[i]]

HasLog(msg) == \E k \in 1..Len(logs) : logs[k].msg = msg

\* C2: the legacy table is applied if and only if the caller's mapping is
\* absent; a supplied mapping, the empty one included, is applied as given
\* and logged with its count and its target keys.
C2_LegacyOnlyWhenMappingAbsent ==
  pc = "fallback" =>
    IF user_mapping.given
      THEN /\ df.columns = RenamedBy(file.table.columns, user_mapping.pairs)
           /\ ~HasLog("AppliedDefaultMapping")
           /\ \E k \in 1..Len(logs) :
                /\ logs[k].msg = "AppliedUserMapping"
                /\ logs[k].count = Len(user_mapping.pairs)
           /\ \E k \in 1..Len(logs) :
                /\ logs[k].msg = "MappedFields"
                /\ logs[k].targets = [j \in 1..Len(user_mapping.pairs) |-> user_mapping.pairs[j][2]]
      ELSE /\ df.columns = RenamedBy(file.table.columns, column_mapping)
           /\ HasLog("AppliedDefaultMapping")
           /\ ~HasLog("AppliedUserMapping")

\* C3: the Age cleaner removes a row if and only if its Age parses to a
\* number below 0 or above 150; the other rows are kept, in order.
C3_AgeRemovesOnlyOutOfRange ==
  [][(pc = "age" /\ pc' = "date" /\ has_field(df, "Age")) =>
       LET at           == ColumnOf(df, "Age")
           Survives(row) == LET n == ToNumeric(row[at])
                            IN  ~(n.t = "num" /\ (n.v < 0 \/ n.v > 150))
           expected     == SelectSeq(df.rows, Survives)
       IN  /\ Len(df'.rows) = Len(expected)
           /\ \A r \in 1..Len(expected) :
                df'.rows[r] = [expected[r] EXCEPT ![at] = ToNumeric(@)]]_vars

RECURSIVE SumRemoved(_)
SumRemoved(log) ==
  IF log = <<>> THEN 0
  ELSE (IF Head(log).msg \in {"RemovedEmptyRows", "AgeFiltered", "RemovedDuplicates"}
          THEN Head(log).count ELSE 0) + SumRemoved(Tail(log))

\* C4: the counts recorded in the log add up to the number of rows removed
\* since the table was loaded: no row disappears unaccounted for.
C4_RemovedRowsAreLogged ==
  pc \in Loaded => Len(file.table.rows) - Len(df.rows) = SumRemoved(logs)

\* C5: after the primary rename every column name of the working table is
\* unique, whatever the headers and the mapping.
C5_ColumnNamesUniqueAfterMapping ==
  pc \in Mapped =>
    \A i \in 1..Len(df.columns) : \A j \in 1..Len(df.columns) :
      i # j => df.columns[i] # df.columns[j]

\* a text that reads as a number: an optional sign, digits, optionally a
\* point followed by zeros only
IsNumeral(s) ==
  LET body == IF s # <<>> /\ s[1] \in {43, 45} THEN Tail(s) ELSE s
      digs == {i \in 1..Len(body) : IsDigit(body[i])}
      dots == {i \in 1..Len(body) : body[i] = 46}
  IN  /\ body # <<>>
      /\ 1 \in digs
      /\ digs \cup dots = 1..Len(body)
      /\ Cardinality(dots) <= 1
      /\ \A k \in dots : \A i \in digs : i > k => body[i] = 48

\* a cell's text without currency symbols, commas and whitespace
WithoutSymbols(c) ==
  LET s    == ToStr(c)
      keep == {i \in 1..Len(s) : s[i] \notin {36, 165, 65509, 44, 65292, 32, 9, 10, 13, 12288}}
      RECURSIVE From(_)
      From(i) == IF i > Len(s) THEN <<>>
                 ELSE (IF i \in keep THEN <<s[i]>> ELSE <<>>) \o From(i + 1)
  IN  From(1)

\* C9: in the numeric cleaner a cell that is not a number once symbols,
\* commas and whitespace are stripped becomes 0 in TotalPrice, UnitPrice,
\* Revenue and Cost and missing in Quantity, Rating and Salary; the row
\* count never changes; TotalPrice ["$1,200", yen 500, "bad", ""] gives
\* [1200, 500, 0, 0].
C9_NumericPolicy ==
  [][(pc = "numeric" /\ pc' = "age") =>
       /\ df'.columns = df.columns
       /\ Len(df'.rows) = Len(df.rows)
       /\ \A r \in 1..Len(df.rows) : \A i \in 1..Len(df.columns) :
            LET old == df.rows[r][i]
                new == df'.rows[r][i]
            IN  IF df.columns[i] \in {"TotalPrice", "UnitPrice", "Revenue", "Cost"}
                  THEN IF IsNumeral(WithoutSymbols(old)) THEN new.t = "num" ELSE new = Num(0)
                ELSE IF df.columns[i] \in {"Quantity", "Rating", "Salary"}
                  THEN IF IsNumeral(WithoutSymbols(old)) THEN new.t = "num" ELSE new = NaN
                ELSE new = old
       /\ df = TotalPriceExample =>
            df' = OneColumn("TotalPrice", <<Num(1200), Num(500), Num(0), Num(0)>>)]_vars

\* C9 witness: the documented TotalPrice example after the numeric cleaner
C9_Witness ==
  /\ pc = "age"
  /\ file.table = TotalPriceExample
  /\ df = OneColumn("TotalPrice", <<Num(1200), Num(500), Num(0), Num(0)>>)
  /\ \E k \in 1..Len(logs) : logs[k].msg = "FinancialReplaced" /\ logs[k].count = 2

\* days from a fixed origin to the date d (proleptic Gregorian)
Ordinal(d) ==
  LET y      == d[1] - 1
      before == <<0, 31, 59, 90, 120, 151, 181, 212, 243, 273, 304, 334>>
      leap   == IF d[2] > 2 /\ ((d[1] % 4 = 0 /\ d[1] % 100 # 0) \/ d[1] % 400 = 0)
                  THEN 1 ELSE 0
  IN  365 * y + (y \div 4) - (y \div 100) + (y \div 400) + before[d[2]] + leap + d[3]

\* the offset in days named by a relative token, or 9 for any other text
TokenOffset(s) ==
  LET w == Strip(Lower(s))
  IN  IF w = <<121,101,115,116,101,114,100,97,121>> THEN 0 - 1
      ELSE IF w = <<116,111,100,97,121>> THEN 0
      ELSE IF w = <<116,111,109,111,114,114,111,119>> THEN 1
      ELSE 9

\* the calendar dates a text can be read as: three numbers joined by one
\* of - / . taken as year-month-day, month-day-year or day-month-year
Readings(s) ==
  LET w  == Strip(s)
      at == {i \in 1..Len(w) : w[i] \in {45, 47, 46}}
  IN  IF Cardinality(at) # 2 THEN {}
      ELSE LET i == SetMin(at)
               j == SetMax(at)
               a == SubSeq(w, 1, i - 1)
               b == SubSeq(w, i + 1, j - 1)
               c == SubSeq(w, j + 1, Len(w))
               n(x) == DigitsValue(x)
               Good(y, m, d) == /\ Len(y) = 4 /\ Len(m) \in {1, 2} /\ Len(d) \in {1, 2}
                                /\ n(m) \in 1..12 /\ n(d) >= 1
                                /\ Ordinal(<<n(y), n(m), n(d)>>) <
                                     Ordinal(IF n(m) = 12 THEN <<n(y) + 1, 1, 1>>
                                             ELSE <<n(y), n(m) + 1, 1>>)
           IN  IF w[i] # w[j] \/ ~AllDigits(a) \/ ~AllDigits(b) \/ ~AllDigits(c) THEN {}
               ELSE {<<n(y), n(m), n(d)>> :
                       <<y, m, d>> \in {t \in {<<a, b, c>>, <<c, a, b>>, <<c, b, a>>} :
                                           Good(t[1], t[2], t[3])}}

\* C10: the date cleaner never removes a row; a relative token in any
\* letter case becomes the calendar date it names, a text that reads as a
\* date becomes that date, and any other value becomes missing while its
\* row stays; ["2023-01-05", "yesterday", "not a date"] keeps 3 rows, two
\* of them dates.
C10_DatesParsedOrMissingRowsKept ==
  [][(pc = "date" /\ pc' = "text") =>
       /\ df'.columns = df.columns
       /\ Len(df'.rows) = Len(df.rows)
       /\ \A r \in 1..Len(df.rows) : \A i \in 1..Len(df.columns) :
            LET old == df.rows[r][i]
                new == df'.rows[r][i]
                txt == ToStr(old)
            IN  IF df.columns[i] \in {"OrderDate", "Join_Date"}
                  THEN IF TokenOffset(txt) # 9
                         THEN /\ new.t = "date"
                              /\ Ordinal(new.v) = Ordinal(today) + TokenOffset(txt)
                       ELSE IF Readings(txt) # {}
                         THEN new.t = "date" /\ new.v \in Readings(txt)
                       ELSE new = NaT
                ELSE new = old
       /\ df = OrderDateExample =>
            /\ Len(df'.rows) = 3
            /\ df'.rows[1][1] = Date(2023, 1, 5)
            /\ df'.rows[2][1].t = "date"
            /\ df'.rows[3][1] = NaT]_vars

\* C10 witness: the documented OrderDate example after the date cleaner,
\* processed on 1 March 2024
C10_Witness ==
  /\ pc = "text"
  /\ today = <<2024, 3, 1>>
  /\ file.table = OrderDateExample
  /\ df = OneColumn("OrderDate", <<Date(2023, 1, 5), Date(2024, 2, 29), NaT>>)

(***************************************************************************)
(* Date retry, deduplication, log and result claims.                       *)
(***************************************************************************)
\* the place in date_formats of the earliest format that reads the text as
\* a date, 0 when none does
EarliestFormat(s) ==
  LET ok == {k \in 1..Len(date_formats) : ParseWithFormat(s, date_formats[k]) # NaT}
  IN  IF ok = {} THEN 0 ELSE SetMin(ok)

Present(t, name) == \E i \in 1..Len(t.columns) : t.columns[i] = name

\* the key as the deduplication rule words it: SaleID if present, Email if
\* present, Phone if present and Email absent
KeyNames(t) ==
  (IF Present(t, "SaleID") THEN <<"SaleID">> ELSE <<>>)
  \o (IF Present(t, "Email") THEN <<"Email">> ELSE <<>>)
  \o (IF Present(t, "Phone") /\ ~Present(t, "Email") THEN <<"Phone">> ELSE <<>>)

\* the positions of the key columns
KeyColumns(t) ==
  {i \in 1..Len(t.columns) : \E k \in 1..Len(KeyNames(t)) : KeyNames(t)[k] = t.columns[i]}

\* rows r and q carry the same values in the columns K
AgreeOn(t, K, r, q) == \A i \in K : t.rows[r][i] = t.rows[q][i]

\* the rows no earlier row agrees with on K
FirstOccurrences(t, K) ==
  {r \in 1..Len(t.rows) : ~\E q \in 1..(r - 1) : AgreeOn(t, K, r, q)}

\* the rows of t at the positions S, in order
RowsAt(t, S) ==
  LET RECURSIVE From(_)
      From(r) == IF r > Len(t.rows) THEN <<>>
                 ELSE (IF r \in S THEN <<t.rows[r]>> ELSE <<>>) \o From(r + 1)
  IN  From(1)

\* C12: the deduplication key is SaleID if present, Email if present and
\* Phone if and only if Phone is present and Email is absent: the rows that
\* go are exactly those an earlier row matches on these columns and on no
\* others, and a logged key names these columns.
C12_KeyBuiltFromColumnsPresent ==
  [][(pc = "dedup" /\ pc' = "summary") =>
       LET K == KeyColumns(df)
       IN  /\ K = {} => df' = df
           /\ K # {} => df'.rows = RowsAt(df, FirstOccurrences(df, K))
           /\ logs' # logs => logs'[Len(logs')].fields = KeyNames(df)]_vars

\* C12 witness: Phone and Email both columns, two rows with one Email and
\* two Phones, of which deduplication kept the first
C12_Witness ==
  /\ pc = "summary"
  /\ df.columns = <<"Phone", "Email">>
  /\ Len(df.rows) = 1
  /\ Len(file.table.rows) = 2
  /\ file.table.rows[1][1] # file.table.rows[2][1]
  /\ logs[Len(logs)] = [msg |-> "RemovedDuplicates", count |-> 1, fields |-> <<"Email">>]

\* C13: after deduplication no two surviving rows agree on all key fields;
\* the survivors are rows of the table in their order and every removed row
\* follows a survivor with the same key; two rows with one Email and two
\* SaleIDs both stay when SaleID is a column, and one of two rows with one
\* Email goes when SaleID is not a column.
C13_FirstOccurrenceKept ==
  [][(pc = "dedup" /\ pc' = "summary" /\ KeyColumns(df) # {}) =>
       LET K == KeyColumns(df)
           n == Len(df.rows)
       IN  /\ df'.columns = df.columns
           /\ \A r \in 1..Len(df'.rows) : \A q \in 1..Len(df'.rows) :
                r # q => ~AgreeOn(df', K, r, q)
           /\ \E S \in SUBSET (1..n) :
                /\ df'.rows = RowsAt(df, S)
                /\ \A r \in (1..n) \ S : \E q \in S : q < r /\ AgreeOn(df, K, r, q)
           /\ (n = 2 /\ Present(df, "Email")
                 /\ \A i \in 1..Len(df.columns) :
                      df.columns[i] = "Email" => df.rows[1][i] = df.rows[2][i]) =>
                IF Present(df, "SaleID")
                  THEN (\E i \in 1..Len(df.columns) :
                          df.columns[i] = "SaleID" /\ df.rows[1][i] # df.rows[2][i])
                       => Len(df'.rows) = 2
                  ELSE Len(df'.rows) = 1]_vars

\* C13 witness: two rows with one Email and two SaleIDs, both kept
C13_Witness ==
  /\ pc = "summary"
  /\ df.columns = <<"SaleID", "Email">>
  /\ Len(df.rows) = 2
  /\ df.rows[1][2] = df.rows[2][2]
  /\ df.rows[1][1] # df.rows[2][1]

\* C14: whenever a key field is present deduplication appends one log
\* entry giving the number of rows removed; when none is present the table
\* and the log are left as they are.
C14_DedupLogsItsCount ==
  [][(pc = "dedup" /\ pc' = "summary") =>
       IF KeyColumns(df) # {}
         THEN /\ Len(logs') = Len(logs) + 1
              /\ SubSeq(logs', 1, Len(logs)) = logs
              /\ logs'[Len(logs')].msg = "RemovedDuplicates"
              /\ logs'[Len(logs')].count = Len(df.rows) - Len(df'.rows)
         ELSE df' = df /\ logs' = logs]_vars

\* the fields each cleaner looks for, by position in clean_excel
CleanerFields ==
  [numeric  |-> {numeric_fields[k] : k \in 1..Len(numeric_fields)},
   age      |-> {"Age"},
   date     |-> {date_fields[k] : k \in 1..Len(date_fields)},
   text     |-> {text_fields[k] : k \in 1..Len(text_fields)},
   location |-> {location_fields[k] : k \in 1..Len(location_fields)},
   phone    |-> {"Phone"},
   email    |-> {"Email"},
   status   |-> {status_fields[k] : k \in 1..Len(status_fields)},
   isvalid  |-> {"IsValid"},
   notes    |-> {text_note_fields[k] : k \in 1..Len(text_note_fields)}]

\* C15: a cleaner appends exactly one log entry for each of its fields
\* that is a column, whatever the column holds, and none for a field that
\* is absent.
C15_OneLogEntryPerCleaner ==
  [][(pc \in DOMAIN CleanerFields /\ pc' # pc /\ pc' # "failed") =>
       /\ Len(logs') = Len(logs) + Cardinality({f \in CleanerFields[pc] : Present(df, f)})
       /\ SubSeq(logs', 1, Len(logs)) = logs]_vars


(***************************************************************************)
(* What an invocation hands back, and how its failures are reported.       *)
(***************************************************************************)
\* C16: whenever loading succeeded and the invocation is done, it has
\* returned the cleaned table together with the ordered cleaning log of the
\* invocation (also when cells failed to coerce)
C16_ReturnsTableAndLog ==
  pc = "done" =>
    /\ result.returned
    /\ result.has_df
    /\ result.df = df
    /\ "log" \in DOMAIN result
    /\ result.log = logs

\* C19: once loading has succeeded no invocation fails, whatever the cells
\* and the mapping are
C19_NoInvocationFailsAfterLoading ==
  pc # "failed"

\* the messages of one kind shown for the run
Shown(kind) == {ui[i].text : i \in {j \in DOMAIN ui : ui[j].kind = kind}}

\* how main reports an exception raised by a stage of clean_excel
StageFailureReport == "Processing failed"

\* C20: a load failure returns no table and produces no log entry, and what
\* is reported for it is an error that differs from the report of a failure
\* in a later stage
C20_LoadFailureReportedDistinctly ==
  (pc = "reported" /\ file.state # "ok") =>
    /\ result.returned
    /\ ~result.has_df
    /\ logs = <<>>
    /\ Shown("success") = {}
    /\ Shown("error") # {}
    /\ StageFailureReport \notin Shown("error")

(***************************************************************************)
(* Two invocations.                                                        *)
(***************************************************************************)
\* a cell of the first output that holds a value: not missing, and not a
\* text that a saved sheet reads back as missing
ValidCell(c) == ~IsNA(c) /\ ~(c.t = "str" /\ c.v \in na_values)

\* every valid cell of table a is found unchanged at its place in table b
KeepsValidCells(a, b) ==
  \A r \in 1..Len(a.rows) : \A i \in 1..Len(a.columns) :
    ValidCell(a.rows[r][i]) => b.rows[r][i] = a.rows[r][i]

\* C17: a second run on the output of the first, with the same mapping,
\* removes no further row and changes no cell that was valid after the first
C17_SecondRunOnOutputChangesNothing ==
  (run = "own_output" /\ pc = "done") =>
    /\ Len(df.rows) = Len(previous.df.rows)
    /\ KeepsValidCells(previous.df, df)

\* a cell holding one of the words yesterday, today, tomorrow
RelativeWord(c) == c.t = "str" /\ TokenOffset(c.v) # 9

HoldsRelativeWord(t) ==
  \E r \in 1..Len(t.rows) : \E i \in 1..Len(t.columns) : RelativeWord(t.rows[r][i])

Applies(t, i) ==
  Present(t, fallback_mapping[i][1]) /\ ~Present(t, fallback_mapping[i][2])

\* the header row with every occurrence of one name replaced by another
Renamed(t, from, to) ==
  [t EXCEPT !.columns = [k \in 1..Len(t.columns) |->
                           IF t.columns[k] = from THEN to ELSE t.columns[k]]]

\* the table as it is when pair i of the fallback pass is examined
RECURSIVE WhenExamined(_, _)
WhenExamined(t, i) ==
  IF i = 1 THEN t
  ELSE LET before == WhenExamined(t, i - 1)
       IN  IF Applies(before, i - 1)
             THEN Renamed(before, fallback_mapping[i - 1][1], fallback_mapping[i - 1][2])
             ELSE before

\* C21: the fallback pass renames for a pair exactly when, as the pair is
\* examined, its alternate name is a column and its target is not, and it
\* appends one log entry of its own for every rename, in pair order
C21_FallbackRenamesExactlyLeftovers ==
  [][(pc = "fallback" /\ pc' = "numeric") =>
       LET last   == Len(fallback_mapping)
           fired  == {i \in 1..last : Applies(WhenExamined(df, i), i)}
           rank(i) == Cardinality({j \in fired : j <= i})
       IN  /\ df' = WhenExamined(df, last + 1)
           /\ Len(logs') = Len(logs) + Cardinality(fired)
           /\ SubSeq(logs', 1, Len(logs)) = logs
           /\ \A i \in fired :
                 logs'[Len(logs) + rank(i)] =
                   [msg |-> "AutoMapped", source |-> fallback_mapping[i][1],
                    target |-> fallback_mapping[i][2]]]_vars

\* Wage was renamed to TotalPrice and logged; the other alternate name of
\* TotalPrice, examined after it, stayed
C21_Witness ==
  /\ pc = "numeric"
  /\ df.columns = <<"u85AAu8D44", "TotalPrice", "SaleID">>
  /\ {k \in 1..Len(logs) : logs[k].msg = "AutoMapped"} # {}
  /\ \A k \in 1..Len(logs) :
        logs[k].msg = "AutoMapped" => logs[k].source = "Wage" /\ logs[k].target = "TotalPrice"

(***************************************************************************)
(* The CustomerName cleaner.                                               *)
(***************************************************************************)
\* a text cell that holds a denylist token, in any letter case
OnDenylist(c) ==
  c.t = "str" /\ \E k \in 1..Len(invalid_names) : Contains(invalid_names[k], Lower(c.v))

\* a cell left as it was apart from trimming: a missing cell stays missing,
\* any other cell keeps its text without the surrounding blanks
OnlyTrimmed(old, new) ==
  IF IsNA(old) THEN IsNA(new) ELSE new = Str(Strip(ToStr(old)))

\* C22: the CustomerName cleaner empties every cell that holds a denylist
\* token in any letter case, leaves every other cell unchanged apart from
\* trimming, and removes no row
C22_CustomerNameDenylistOnly ==
  [][(pc = "text" /\ pc' = "location") =>
       /\ Len(df'.rows) = Len(df.rows)
       /\ \A i \in 1..Len(df.columns) :
             df.columns[i] = "CustomerName" =>
               \A r \in 1..Len(df.rows) :
                 IF OnDenylist(df.rows[r][i])
                   THEN df'.rows[r][i] = Str(<<>>)
                   ELSE OnlyTrimmed(df.rows[r][i], df'.rows[r][i])]_vars

(***************************************************************************)
(* The summarizer.                                                         *)
(***************************************************************************)
SummaryPlaceholders ==
  {"AI Summary Skipped (Client not initialized).", "AI Error", "Error generating summary"}

\* C24: an absent or failing summarizer never keeps the cleaned table from
\* being returned: the summary step always ends the invocation with the
\* cleaned table returned, together with the commentary or, when there is no
\* client or the summary fails, an explanatory placeholder
C24_SummarizerNeverBlocksTheTable ==
  [][(pc = "summary" /\ pc' # "summary") =>
       /\ pc' = "done"
       /\ result'.returned /\ result'.has_df /\ result'.df = df
       /\ result'.summary \in SummaryPlaceholders \cup {"AI text"}
       /\ ~client => result'.summary = "AI Summary Skipped (Client not initialized)."]_vars

(***************************************************************************)
(* Deduplication runs last.                                                *)
(***************************************************************************)
\* an e-mail text in normal form: no capital letter, no surrounding blank,
\* no '#' (half or full width) and no full-width '@'.  Two normal forms
\* that differ only in letter case, surrounding blanks or '#' for '@' are
\* the same text
IsFolded(s) ==
  /\ \A k \in 1..Len(s) : ~(s[k] >= 65 /\ s[k] <= 90) /\ s[k] \notin {35, 65283, 65312}
  /\ s = <<>> \/ (~IsSpace(s[1]) /\ ~IsSpace(s[Len(s)]))

\* C25: deduplication starts on normalized values (every Email cell is a
\* text in normal form when it starts), leaves no two rows with the same
\* key, and no later step of the invocation changes the table
C25_DedupRunsLastOnNormalizedValues ==
  [][/\ (pc = "dedup" /\ pc' = "summary") =>
          /\ \A i \in 1..Len(df.columns) : \A r \in 1..Len(df.rows) :
                df.columns[i] = "Email" =>
                  df.rows[r][i].t = "str" /\ IsFolded(df.rows[r][i].v)
          /\ KeyColumns(df') # {} =>
                \A r, q \in 1..Len(df'.rows) : r # q => ~AgreeOn(df', KeyColumns(df'), r, q)
     /\ pc \in {"summary", "done", "load_failed", "failed"} => df' = df]_vars

\* two spellings of one address were read, one row is left
C25_Witness ==
  /\ pc = "done"
  /\ file.table = [columns |-> <<"Email">>,
                   rows |-> << <<Str(<<32,66,111,98,35,77,97,105,108,46,111,114,103,32>>)>>, <<Str(<<98,111,98,64,109,97,105,108,46,111,114,103>>)>> >>]
  /\ df.rows = << <<Str(<<98,111,98,64,109,97,105,108,46,111,114,103>>)>> >>

(***************************************************************************)
(* Which stages change the number of rows.                                 *)
(***************************************************************************)
RowKeepingStages ==
  {"mapping", "fallback", "numeric", "date", "text", "location", "phone", "email",
   "status", "isvalid", "notes"}

\* C26: the primary mapping, the fallback pass and the numeric, date,
\* text, location, phone, e-mail, status, boolean and notes cleaners leave
\* the number of rows as it is, whatever the cells hold
C26_OnlyThreeStagesChangeRowCount ==
  [][(pc \in RowKeepingStages /\ pc' # "failed") =>
       Len(df'.rows) = Len(df.rows)]_vars

\* a quantity that is no number went through the numeric cleaner: the cell
\* is missing and both rows are still there
C26_Witness ==
  /\ pc = "age"
  /\ df.columns = <<"Quantity">>
  /\ Len(file.table.rows) = 2
  /\ Len(df.rows) = 2
  /\ file.table.rows[1][1] = Str(<<110,47,97>>)
  /\ IsNA(df.rows[1][1])

(***************************************************************************)
(* The order of the cleaners.                                              *)
(***************************************************************************)
\* the cleaner of clean_excel that stands at a position
RunCleaner(name, st, now) ==
  CASE name = "numeric"  -> CleanNumeric(st)
    [] name = "age"      -> CleanAge(st)
    [] name = "date"     -> CleanDates(st, now)
    [] name = "text"     -> CleanText(st)
    [] name = "location" -> CleanLocation(st)
    [] name = "phone"    -> CleanPhone(st)
    [] name = "email"    -> CleanEmail(st)
    [] name = "status"   -> CleanStatus(st)
    [] name = "isvalid"  -> CleanIsValid(st)
    [] name = "notes"    -> CleanNotes(st)

FixedOrder ==
  <<"numeric", "age", "date", "text", "location", "phone", "email", "status", "isvalid", "notes">>

\* the cleaners applied in the given order, stopped by an exception
RECURSIVE ApplyInOrder(_, _, _)
ApplyInOrder(order, st, now) ==
  IF order = <<>> \/ st.failed THEN st
  ELSE CHOOSE after \in {ApplyInOrder(Tail(order), s, now) :
                            s \in {RunCleaner(Head(order), st, now)}} : TRUE

\* the final table of a run of the cleaners in an order, deduplication last
FinalTable(order, st, now) ==
  LET cleaned == ApplyInOrder(order, st, now)
  IN  IF cleaned.failed THEN [failed |-> TRUE, df |-> EmptyTable]
      ELSE [failed |-> FALSE, df |-> Deduplicate(cleaned).df]

\* the cleaners that find one of their fields among the columns
ActiveCleaners(t) ==
  {c \in DOMAIN CleanerFields : \E f \in CleanerFields[c] : Present(t, f)}

\* every order of the cleaners in the set S
OrdersOf(S) ==
  {o \in [1..Cardinality(S) -> S] : \A i, j \in 1..Cardinality(S) : i # j => o[i] # o[j]}

\* C27: as the cleaners start, running them in any order, deduplication
\* last, gives the final table of the fixed order.  A cleaner that finds
\* none of its fields changes nothing, so the orders of the others are all
\* the orders there are
C27_CleanerOrderIsImmaterial ==
  pc = "numeric" =>
    LET st == [df |-> df, logs |-> logs, failed |-> FALSE]
    IN  /\ \A c \in DOMAIN CleanerFields \ ActiveCleaners(df) : RunCleaner(c, st, today) = st
        /\ \A o \in OrdersOf(ActiveCleaners(df)) :
              FinalTable(o, st, today) = FinalTable(FixedOrder, st, today)

\* the Age filter and the e-mail cleaner both have work to do
C27_Witness ==
  /\ pc = "numeric"
  /\ ActiveCleaners(df) = {"age", "email"}
  /\ Len(df.rows) = 2
  /\ \E r \in 1..2 : df.rows[r] = <<Num(200), Str(<<97,64,120,46,105,111>>)>>
  /\ Len(FinalTable(<<"email", "age">>, [df |-> df, logs |-> logs, failed |-> FALSE], today).df.rows) = 1

(***************************************************************************)
(* The log.                                                                *)
(***************************************************************************)
InSeq(x, s) == \E k \in 1..Len(s) : s[k] = x

\* the place in the pipeline of the stage that writes a log entry
EntryRank(e) ==
  CASE e.msg = "RemovedEmptyRows" -> 1
    [] e.msg \in {"AppliedUserMapping", "MappedFields", "AppliedDefaultMapping"} -> 2
    [] e.msg = "AutoMapped" -> 3
    [] e.msg \in {"FinancialReplaced", "FinancialCleaned", "NumericConverted"} -> 4
    [] e.msg \in {"AgeFiltered", "AgeConverted"} -> 5
    [] e.msg \in {"DateSomeUnparsed", "DateAllParsed"} -> 6
    [] e.msg = "InvalidNamesRemoved" -> 7
    [] e.msg = "Trimmed" /\ InSeq(e.field, text_fields) -> 7
    [] e.msg = "Trimmed" /\ InSeq(e.field, location_fields) -> 8
    [] e.msg = "CleanedPhone" -> 9
    [] e.msg = "CleanedEmail" -> 10
    [] e.msg = "TrimmedStandardized" -> 11
    [] e.msg = "CleanedIsValid" -> 12
    [] e.msg = "Trimmed" /\ InSeq(e.field, text_note_fields) -> 13
    [] e.msg = "RemovedDuplicates" -> 14

\* C28: a step of the invocation only appends to the log (the log before
\* the step is a prefix of the log after it), and the entries stand in
\* stage order: empty-row removal, primary mapping, fallback pass, the
\* cleaners in their fixed order, deduplication
C28_LogAppendOnlyInStageOrder ==
  [][/\ Len(logs') >= Len(logs)
     /\ SubSeq(logs', 1, Len(logs)) = logs
     /\ \A i, j \in 1..Len(logs') : i < j => EntryRank(logs'[i]) <= EntryRank(logs'[j])]_vars

\* a finished log with entries of the mapping, the fallback pass and a cleaner
C28_Witness ==
  /\ pc = "done"
  /\ Len(logs) >= 4
  /\ HasLog("AppliedUserMapping")
  /\ HasLog("AutoMapped")
  /\ HasLog("FinancialCleaned")

(***************************************************************************)
(* The option list of the mapping form and its pre-selected entry.         *)
(***************************************************************************)
\* categorized[cat]: the keys of one category in registry order, from field i on
RECURSIVE KeysOfCategory(_, _)
KeysOfCategory(cat, i) ==
  IF i > Len(STANDARD_FIELDS) THEN <<>>
  ELSE (IF STANDARD_FIELDS[i].category = cat THEN <<STANDARD_FIELDS[i].key>> ELSE <<>>)
       \o KeysOfCategory(cat, i + 1)

\* "for cat in category_order: options.extend(categorized[cat])", from c on
RECURSIVE OptionsFrom(_)
OptionsFrom(c) ==
  IF c > Len(category_order) THEN <<>>
  ELSE KeysOfCategory(category_order[c], 1) \o OptionsFrom(c + 1)

\* field_keys: the keys of get_field_options_by_category()
get_field_options_by_category == <<"Ignore">> \o OptionsFrom(1)

\* field_keys.index(detected_field), or 0 when it raises ValueError
default_index(detected_field) ==
  LET field_keys == get_field_options_by_category
      at         == {k \in 1..Len(field_keys) : field_keys[k] = detected_field}
  IN  IF at = {} THEN 0 ELSE SetMin(at) - 1

RegistryKeys == {STANDARD_FIELDS[i].key : i \in 1..Len(STANDARD_FIELDS)}

\* the place of a key's category in the category order
CategoryRank(key) ==
  LET at == CHOOSE i \in 1..Len(STANDARD_FIELDS) : STANDARD_FIELDS[i].key = key
  IN  CHOOSE c \in 1..Len(category_order) : category_order[c] = STANDARD_FIELDS[at].category

\* C29: what the detector returns is "Ignore" or a registry key; the option
\* list holds "Ignore" first and then every registry key exactly once,
\* grouped in category order; so the pre-selected option of a column is the
\* detected field, found in the list and not by the fallback to "Ignore"
C29_PreselectedOptionIsDetectedField ==
  dstate = "returned" =>
    LET field_keys == get_field_options_by_category
    IN  /\ best_match \in {"Ignore"} \cup RegistryKeys
        /\ field_keys[1] = "Ignore"
        /\ \A v \in {"Ignore"} \cup RegistryKeys :
              Cardinality({k \in 1..Len(field_keys) : field_keys[k] = v}) = 1
        /\ Len(field_keys) = 1 + Cardinality(RegistryKeys)
        /\ \A i, j \in 2..Len(field_keys) :
              i < j => CategoryRank(field_keys[i]) <= CategoryRank(field_keys[j])
        /\ \E k \in 1..Len(field_keys) : field_keys[k] = best_match
        /\ field_keys[default_index(best_match) + 1] = best_match

\* a column detected as a field of the last category is pre-selected
C29_Witness ==
  /\ dstate = "returned"
  /\ best_match \in RegistryKeys
  /\ CategoryRank(best_match) = Len(category_order)
  /\ default_index(best_match) > 0
  /\ get_field_options_by_category[default_index(best_match) + 1] = best_match

(***************************************************************************)
(* Two calls of clean_excel at the same time.                              *)
(***************************************************************************)
\* the stages of clean_excel between the read and the summary
StageOrder == <<"dropna", "mapping", "fallback">> \o FixedOrder \o <<"dedup">>

\* the stage at a position, applied to the locals of a call
RunStage(at, st, mapping, now) ==
  CASE at = "dropna"   -> DropEmptyRows(st)
    [] at = "mapping"  -> ApplyColumnMapping(st, mapping)
    [] at = "fallback" -> FallbackPass(st, 1)
    [] at = "dedup"    -> Deduplicate(st)
    [] OTHER           -> RunCleaner(at, st, now)

\* variant of FrameOf that keeps the table and the log of every call in
\* one place
FrameOfShared(i) == 1

\* where the table and the log of call i live: df and logs are local
\* variables of clean_excel, so in the frame of that call
FrameOf(i) == i

\* one step of the second call: the read, a stage, or the summary of a
\* DataCleaner without client
PeerStep ==
  /\ peer.pc \notin {"idle", "done", "failed"}
  /\ LET shared == FrameOf(2) = FrameOf(1)
         mine   == IF shared THEN [df |-> df, logs |-> logs, failed |-> FALSE]
                   ELSE [df |-> peer.df, logs |-> peer.logs, failed |-> FALSE]
         at     == CHOOSE k \in 1..Len(StageOrder) : StageOrder[k] = peer.pc
     IN  \E st \in {IF peer.pc = "read" THEN [df |-> peer.table, logs |-> <<>>, failed |-> FALSE]
                    ELSE IF peer.pc = "summary" THEN mine
                    ELSE RunStage(peer.pc, mine, peer.mapping, today)} :
           LET next == IF st.failed THEN "failed"
                       ELSE IF peer.pc = "read" THEN StageOrder[1]
                       ELSE IF peer.pc = "summary" THEN "done"
                       ELSE IF at = Len(StageOrder) THEN "summary"
                       ELSE StageOrder[at + 1]
           IN  IF shared
                 THEN /\ peer' = [peer EXCEPT !.pc = next]
                      /\ df' = st.df
                      /\ logs' = st.logs
                 ELSE /\ peer' = [peer EXCEPT !.pc = next, !.df = st.df, !.logs = st.logs]
                      /\ UNCHANGED <<df, logs>>
  /\ UNCHANGED <<file, user_mapping, today, client, pc, result, ui, run, previous,
                 sessions, tempdir, clock, dvars>>

\* the sheets of the two calls
ConcurrentScenarios ==
  {LeftoverScenario, EmptySheetScenario}
  \cup {[table |-> t, mapping |-> NoMapping] : t \in ExampleTables}

InitConcurrent ==
  /\ DetectorIdle
  /\ \/ \E s \in ConcurrentScenarios :
          /\ file = [state |-> "ok", table |-> s.table]
          /\ user_mapping = s.mapping
     \/ \E s \in LoadFailures :
          /\ file = s.file
          /\ user_mapping = s.mapping
  /\ today = <<2024, 3, 1>>
  /\ client \in BOOLEAN
  /\ pc = "read"
  /\ df = EmptyTable
  /\ logs = <<>>
  /\ result = NoResult
  /\ ui = <<>>
  /\ run = "first"
  /\ previous = NoPrevious
  /\ peer \in {[NoPeer EXCEPT !.pc = "read", !.table = s.table, !.mapping = s.mapping] :
                 s \in ConcurrentScenarios}
  /\ sessions = <<>>
  /\ tempdir = {}
  /\ clock = 0

NextConcurrent ==
  \/ Next
  \/ PeerStep

SpecConcurrent == InitConcurrent /\ [][NextConcurrent]_vars

MaxClock == 1

\* the uploaded workbooks, as their bytes
Workbooks == {"bytes of sales.xlsx", "bytes of staff.xlsx"}

\* hashlib.md5(bytes).hexdigest()[:8]: a function of the bytes alone.  The
\* workbooks of the model have different digests
md5_8(bytes) == IF bytes = "bytes of sales.xlsx" THEN "digest 1" ELSE "digest 2"

\* temp_<timestamp to the second>_<digest><extension> in the temp directory
TempPath(second, bytes) == [timestamp |-> second, file_hash |-> md5_8(bytes)]

Exists(path) == \E f \in tempdir : f.path = path

BytesAt(path) == (CHOOSE f \in tempdir : f.path = path).bytes

SessionFrame == <<dvars, file, user_mapping, today, client, pc, df, logs, result, ui, run,
                  previous, peer>>

\* datetime.now() moves on
Tick ==
  /\ clock < MaxClock
  /\ clock' = clock + 1
  /\ UNCHANGED <<sessions, tempdir, SessionFrame>>

\* save_uploaded_file_secure: open(temp_path, "wb") creates or replaces
Save ==
  \E s \in DOMAIN sessions :
    /\ sessions[s].at = "upload"
    /\ LET temp_path == TempPath(clock, sessions[s].bytes)
       IN  /\ tempdir' = {f \in tempdir : f.path # temp_path}
                            \cup {[path |-> temp_path, bytes |-> sessions[s].bytes]}
           /\ sessions' = [sessions EXCEPT ![s].at = "saved", ![s].path = temp_path]
    /\ UNCHANGED <<clock, SessionFrame>>

\* pd.read_excel(temp_path, nrows=5); a missing file raises into the handler
\* "Error loading file"
Preview ==
  \E s \in DOMAIN sessions :
    /\ sessions[s].at = "saved"
    /\ sessions' = IF Exists(sessions[s].path)
                     THEN [sessions EXCEPT ![s].at = "previewed",
                                           ![s].reads = Append(@, BytesAt(sessions[s].path))]
                     ELSE [sessions EXCEPT ![s].at = "load_error",
                                           ![s].reads = Append(@, "FileNotFoundError")]
    /\ UNCHANGED <<clock, tempdir, SessionFrame>>

\* the click: cleaner.clean_excel(temp_path, ...) checks os.path.exists and reads
Clean ==
  \E s \in DOMAIN sessions :
    /\ sessions[s].at = "previewed"
    /\ sessions[s].clicked
    /\ sessions' = [sessions EXCEPT ![s].at = "cleaned",
                                    ![s].reads = Append(@, IF Exists(sessions[s].path)
                                                             THEN BytesAt(sessions[s].path)
                                                             ELSE "File not found")]
    /\ UNCHANGED <<clock, tempdir, SessionFrame>>

\* finally: os.remove(temp_path) if the path exists
Remove ==
  \E s \in DOMAIN sessions :
    /\ \/ sessions[s].at \in {"cleaned", "load_error"}
       \/ sessions[s].at = "previewed" /\ ~sessions[s].clicked
    /\ tempdir' = {f \in tempdir : f.path # sessions[s].path}
    /\ sessions' = [sessions EXCEPT ![s].at = "closed"]
    /\ UNCHANGED <<clock, SessionFrame>>

InitSessions ==
  /\ DetectorIdle
  /\ PipelineIdle
  /\ peer = NoPeer
  /\ sessions \in [1..2 -> {[at |-> "upload", bytes |-> b, clicked |-> c,
                              path |-> TempPath(0, b), reads |-> <<>>] :
                               b \in Workbooks, c \in BOOLEAN}]
  /\ tempdir = {}
  /\ clock = 0

NextSessions ==
  \/ Tick
  \/ Save
  \/ Preview
  \/ Clean
  \/ Remove

SpecSessions == InitSessions /\ [][NextSessions]_vars

\* C30: two sessions never have the same temp path in use, and every read
\* of a session finds the bytes that session uploaded
C30_SessionsNeverShareTempFile ==
  \A s \in DOMAIN sessions :
    /\ \A k \in 1..Len(sessions[s].reads) : sessions[s].reads[k] = sessions[s].bytes
    /\ \A t \in DOMAIN sessions \ {s} :
          (sessions[s].at \in {"saved", "previewed"} /\ sessions[t].at \in {"saved", "previewed"})
            => sessions[s].path # sessions[t].path
====
